---- MODULE Spec2Model ----
(***************************************************************************)
(* A model of the query-security and mutation-translation core of          *)
(* express-prisma-starter:                                                 *)
(*   - BaseController._parseQueryParams and its validators                 *)
(*     (src/unnamed/part_004),                                             *)
(*   - BaseModel.runInTransaction (src/src/core/base/BaseModel.ts and the  *)
(*     older src/src/core/models/BaseModel.ts),                            *)
(*   - BaseModel.queryRaw and its whitelist checks                         *)
(*     (src/src/core/base/BaseModel.ts),                                   *)
(*   - BaseController._validateQueryParams called directly, and getAll     *)
(*     (src/unnamed/part_004),                                             *)
(*   - BaseController._processNestedFields, with the depth budget          *)
(*     (src/unnamed/part_004) and without it (src/unnamed/part_005),       *)
(*   - BaseController.bulkCreate, all-or-nothing (src/unnamed/part_004)    *)
(*     and with partial success (src/unnamed/part_006),                    *)
(*   - the errorHandler middleware                                         *)
(*     (src/src/core/middlewares/errorHandler.ts),                         *)
(*   - BaseController.create and update with the schema validation of      *)
(*     src/src/utils/validation.ts,                                        *)
(*   - BaseController.softDelete and restore (src/unnamed/part_004).       *)
(* Each component has its own specification (SpecQ, SpecTx, SpecRaw,       *)
(* SpecLimit, SpecGetAll, SpecNested, SpecBulk, SpecPartial, SpecHandled,  *)
(* SpecWrite, SpecSoft); the variables of the other components stay at     *)
(* their idle values.                                                      *)
(***************************************************************************)
EXTENDS Integers, Sequences, FiniteSets, TLC

VARIABLES
    ctorConfig,      \* the securityConfig argument the constructor was given
    securityConfig,  \* BaseController.securityConfig, set by the constructor
    req,             \* req.query of the request being handled
    qpc,             \* position of the query handler: "idle", "request", "parsed"
    qresult,         \* what _parseQueryParams produced: a plan or a thrown error
    variant,         \* which runInTransaction runs: "base" or "models"
    maxRetries,      \* options.maxRetries after defaulting
    script,          \* what the unit of work does on its 1st, 2nd, ... start
    tpc,             \* position of runInTransaction
    retry,           \* the loop counter (retry in base, retries in models)
    attempts,        \* how many times the unit of work was started
    staged,          \* writes of the running attempt, not yet committed
    committed,       \* committed writes, as <<attempt, write>> pairs
    waits,           \* the backoff waits so far, in milliseconds
    lastError,       \* the error caught last
    txOutcome,       \* what the caller received: a result or an error
    inflight,        \* attempts whose unit of work has not settled yet
    lateOps,         \* store operations issued after the caller was answered
    queryWhitelist,  \* the static queryWhitelist of the model class
    rawQuery,        \* the query argument of queryRaw
    rawValues,       \* the values argument of queryRaw
    rpc,             \* position of queryRaw: "idle", "called", "executing", "done"
    rawOutcome,      \* what the caller of queryRaw received
    storeLog,        \* the queries handed to prisma.$queryRaw, in order
    storeFailure,    \* what the try block of queryRaw threw, as logged
    directParams,    \* the plan handed to _validateQueryParams directly
    verdict,         \* what that call did: "none", "passed" or the error
    gpc,             \* position of getAll: "idle", "awaiting", "done"
    clientCalls,     \* the calls made on the model client, in order
    unsettled,       \* the client calls whose promise has not settled
    response,        \* what getAll did with res and next
    nvariant,        \* which _processNestedFields runs: "depth" or "flat"
    payload,         \* the request body handed to _processNestedFields
    updateMode,      \* its isUpdate argument
    npc,             \* position of the translation: "idle", "called", "done"
    writeTree,       \* what _processNestedFields returned
    body,            \* req.body of the bulk create request
    bpc,             \* position of bulkCreate
    bulkResponse,    \* what bulkCreate did with res and next
    submitted,       \* req.body of the bulk create with per-item results
    ppc,             \* position of that handler
    creationResults, \* the settled state of each create, by item
    partialResponse, \* what that handler did with res and next
    errorResponse,   \* what errorHandler answered: status and error text
    wbody,           \* req.body of the create or update request
    wmode,           \* TRUE for update, FALSE for create
    wpc,             \* position of that handler
    storeData,       \* the data argument of the store call
    wresponse,       \* what that handler did with res and next
    handlerOp,       \* softDelete or restore, per request
    handlerPc,       \* each handler's position
    existingItem,    \* what findUnique resolved with, per request
    softResponse,    \* each handler's response
    storedItem,      \* the row in the store
    storeClock       \* the time new Date() reads

qvars == <<ctorConfig, securityConfig, req, qpc, qresult>>
tvars == <<variant, maxRetries, script, tpc, retry, attempts, staged,
           committed, waits, lastError, txOutcome, inflight, lateOps>>
rvars == <<queryWhitelist, rawQuery, rawValues, rpc, rawOutcome, storeLog,
           storeFailure>>
dvars == <<directParams, verdict>>
gvars == <<gpc, clientCalls, unsettled, response>>
nvars == <<nvariant, payload, updateMode, npc, writeTree>>
bvars == <<body, bpc, bulkResponse>>
pvars == <<submitted, ppc, creationResults, partialResponse>>
evars == <<errorResponse>>
wvars == <<wbody, wmode, wpc, storeData, wresponse>>
svars == <<handlerOp, handlerPc, existingItem, softResponse, storedItem,
           storeClock>>
vars == <<qvars, tvars, rvars, dvars, gvars, nvars, bvars, pvars, evars,
          wvars, svars>>
\* the variables the query handler, runInTransaction, queryRaw and a direct
\* call of the validator leave alone
notQ == <<tvars, rvars, dvars, gvars, nvars, bvars, pvars, evars, wvars,
          svars>>
notTx == <<qvars, rvars, dvars, gvars, nvars, bvars, pvars, evars, wvars,
           svars>>
notRaw == <<qvars, tvars, dvars, gvars, nvars, bvars, pvars, evars, wvars,
            svars>>
notDirect == <<qvars, tvars, rvars, gvars, nvars, bvars, pvars, evars, wvars,
               svars>>
notGetAll == <<tvars, rvars, dvars, nvars, bvars, pvars, evars, wvars, svars>>
notNested == <<qvars, tvars, rvars, dvars, gvars, bvars, pvars, evars, wvars,
               svars>>
notBulk == <<qvars, rvars, dvars, gvars, nvars, pvars, evars, wvars, svars>>
notPartial == <<qvars, tvars, rvars, dvars, gvars, nvars, bvars, evars,
                wvars, svars>>
notHandler == <<qvars, tvars, rvars, dvars, gvars, nvars, bvars, pvars,
                wvars, svars>>
notWrite == <<qvars, tvars, rvars, dvars, gvars, nvars, bvars, pvars, evars,
              svars>>
notSoft == <<qvars, tvars, rvars, dvars, gvars, nvars, bvars, pvars, evars,
             wvars>>

(***************************************************************************)
(* Bounds of the model.                                                    *)
(***************************************************************************)
\* a request carries at most this many query parameters
MaxParams == 2
\* options.maxRetries ranges over 0..MaxRetriesBound
MaxRetriesBound == 3
\* the unit of work issues this many writes before it resolves
NumWrites == 2

(***************************************************************************)
(* JSON values.  A value is a node [t, kids]: t is its JavaScript shape    *)
(* and kids the sequence of <<key, value>> pairs Object.keys/entries see,  *)
(* in order ("0", "1", ... for an array or a string).                      *)
(***************************************************************************)
Node(t, kids) == [t |-> t, kids |-> kids]
Undef == Node("undef", <<>>)       \* undefined / parameter absent
Null == Node("null", <<>>)         \* null
Prim == Node("prim", <<>>)         \* a truthy number, boolean or Date
Invalid == Node("invalid", <<>>)   \* a string JSON.parse throws on
StrNode == Node("str", <<<<"0", Prim>>>>)   \* a one-character string
Obj(kids) == Node("obj", kids)
Obj1(k, v) == Obj(<<<<k, v>>>>)
Arr1(v) == Node("arr", <<<<"0", v>>>>)

\* JavaScript truthiness of a value
Truthy(n) == n.t \in {"obj", "arr", "prim", "str"}
\* typeof n === "object" (null included)
IsObject(n) == n.t \in {"obj", "arr", "null"}

\* the set of Object.keys(n)
KeySet(n) == {n.kids[i][1] : i \in 1..Len(n.kids)}
HasKey(n, k) == k \in KeySet(n)
\* n[k]
Get(n, k) ==
    IF HasKey(n, k)
    THEN n.kids[CHOOSE i \in 1..Len(n.kids) : n.kids[i][1] = k][2]
    ELSE Undef
\* the entries of { ...n }
Spread(n) == IF n.t \in {"obj", "arr", "str"} THEN n.kids ELSE <<>>
\* kids after `o[k] = v`: replaced in place, or appended
SetKey(kids, k, v) ==
    IF \E i \in 1..Len(kids) : kids[i][1] = k
    THEN [i \in 1..Len(kids) |-> IF kids[i][1] = k THEN <<k, v>> ELSE kids[i]]
    ELSE Append(kids, <<k, v>>)

(***************************************************************************)
(* JavaScript numbers, with NaN.                                           *)
(***************************************************************************)
Num(v) == [nan |-> FALSE, v |-> v]
NaN == [nan |-> TRUE, v |-> 0]
MathMax(a, b) == IF a.nan \/ b.nan THEN NaN ELSE IF a.v >= b.v THEN a ELSE b
MathMin(a, b) == IF a.nan \/ b.nan THEN NaN ELSE IF a.v <= b.v THEN a ELSE b
NumGt(a, b) == ~a.nan /\ ~b.nan /\ a.v > b.v
NumMul(a, b) == IF a.nan \/ b.nan THEN NaN ELSE Num(a.v * b.v)
NumSub(a, b) == IF a.nan \/ b.nan THEN NaN ELSE Num(a.v - b.v)

\* A raw page/limit parameter: absent, a decimal integer string, or a string
\* with no leading digits.
RawAbsent == [k |-> "absent", v |-> 0]
RawInt(v) == [k |-> "int", v |-> v]
RawJunk == [k |-> "junk", v |-> 0]
\* parseInt(s, 10)
ParseInt(raw) == IF raw.k = "int" THEN Num(raw.v) ELSE NaN

(***************************************************************************)
(* The security configuration.                                             *)
(***************************************************************************)
DEFAULT_SECURITY_CONFIG ==
    [allowedFilters |-> {},
     allowedSortFields |-> {},
     allowedIncludeRelations |-> {},
     allowedSelectFields |-> {},
     maxIncludeDepth |-> 1,
     maxLimit |-> 50,
     hasSoftDelete |-> FALSE,
     maximumNestedDepth |-> 1]

\* A Partial<QuerySecurityConfig>: the keys it sets and their values.
Partial(set, val) == [set |-> set, val |-> val]
NoConfig == Partial({}, DEFAULT_SECURITY_CONFIG)

\* constructor: { ...DEFAULT_SECURITY_CONFIG, ...securityConfig }
Construct(partial) ==
    [k \in DOMAIN DEFAULT_SECURITY_CONFIG |->
        IF k \in partial.set THEN partial.val[k] ELSE DEFAULT_SECURITY_CONFIG[k]]

(***************************************************************************)
(* Errors thrown by the translator: the kind of message and the name it    *)
(* quotes.                                                                 *)
(***************************************************************************)
Err(kind, name) == [kind |-> kind, name |-> name]
NoErr == Err("none", "")
IsErr(e) == e.kind # "none"

(***************************************************************************)
(* The validators.  Each returns the error the code throws first, in the   *)
(* order Object.keys(...).forEach visits the keys, or NoErr.               *)
(***************************************************************************)
LogicalKeys == {"AND", "OR", "NOT"}

\* the test of one non-logical filter key
FilterKeyAllowed(cfg, key) == key = "deletedAt" \/ key \in cfg.allowedFilters

RECURSIVE ValidateFilterFields(_, _), ValidateFilterFrom(_, _, _),
          ValidateConditionsFrom(_, _, _)
\* _validateFilterFields(where)
ValidateFilterFields(cfg, where) ==
    IF ~Truthy(where) THEN NoErr ELSE ValidateFilterFrom(cfg, where.kids, 1)

\* where[key].forEach((condition) => this._validateFilterFields(condition))
ValidateConditionsFrom(cfg, items, j) ==
    IF j > Len(items) THEN NoErr
    ELSE LET here == ValidateFilterFields(cfg, items[j][2])
         IN IF IsErr(here) THEN here
            ELSE ValidateConditionsFrom(cfg, items, j + 1)

\* the forEach over the entries of where, from the i-th on
ValidateFilterFrom(cfg, kids, i) ==
    IF i > Len(kids) THEN NoErr
    ELSE LET key == kids[i][1]
             val == kids[i][2]
             here ==
                IF key \in LogicalKeys
                THEN IF val.t = "arr"
                     THEN ValidateConditionsFrom(cfg, val.kids, 1)
                     ELSE IF IsObject(val)
                          THEN ValidateFilterFields(cfg, val)
                          ELSE NoErr
                ELSE IF ~FilterKeyAllowed(cfg, key)
                     THEN Err("filter", key)
                     ELSE NoErr
         IN IF IsErr(here) THEN here ELSE ValidateFilterFrom(cfg, kids, i + 1)

\* the first key of an object that fails a test, as an error of that kind
RECURSIVE FirstDisallowed(_, _, _, _)
FirstDisallowed(kind, allowed, kids, i) ==
    IF i > Len(kids) THEN NoErr
    ELSE IF kids[i][1] \notin allowed THEN Err(kind, kids[i][1])
         ELSE FirstDisallowed(kind, allowed, kids, i + 1)

\* _validateSortFields(orderBy)
ValidateSortFields(cfg, orderBy) ==
    FirstDisallowed("sort", cfg.allowedSortFields, orderBy.kids, 1)

\* _validateSelectFields(select)
ValidateSelectFields(cfg, select) ==
    FirstDisallowed("select", cfg.allowedSelectFields, select.kids, 1)

RECURSIVE ValidateIncludeRelations(_, _, _), ValidateIncludeFrom(_, _, _, _)
\* _validateIncludeRelations without its test of the depth
ValidateIncludeRelations_NoDepth(cfg, include, currentDepth) ==
    IF ~Truthy(include) THEN NoErr
    ELSE ValidateIncludeFrom(cfg, include.kids, currentDepth, 1)

\* _validateIncludeRelations(include, currentDepth)
ValidateIncludeRelations(cfg, include, currentDepth) ==
    IF ~Truthy(include) \/ currentDepth > cfg.maxIncludeDepth
    THEN IF currentDepth > cfg.maxIncludeDepth
         THEN Err("depth", "")
         ELSE NoErr
    ELSE ValidateIncludeFrom(cfg, include.kids, currentDepth, 1)

\* the forEach over the relations of one level, from the i-th on
ValidateIncludeFrom(cfg, kids, currentDepth, i) ==
    IF i > Len(kids) THEN NoErr
    ELSE LET key == kids[i][1]
             val == kids[i][2]
             here ==
                IF key \notin cfg.allowedIncludeRelations
                THEN Err("include", key)
                ELSE IF Truthy(val) /\ IsObject(val)
                        /\ Truthy(Get(val, "include"))
                     THEN ValidateIncludeRelations(cfg, Get(val, "include"),
                                                   currentDepth + 1)
                     ELSE NoErr
         IN IF IsErr(here) THEN here
            ELSE ValidateIncludeFrom(cfg, kids, currentDepth, i + 1)

\* _validateQueryParams(params)
ValidateQueryParams(cfg, params) ==
    LET e1 == IF Truthy(params.where)
              THEN ValidateFilterFields(cfg, params.where) ELSE NoErr
        e2 == IF Truthy(params.orderBy)
              THEN ValidateSortFields(cfg, params.orderBy) ELSE NoErr
        e3 == IF Truthy(params.include)
              THEN ValidateIncludeRelations(cfg, params.include, 1) ELSE NoErr
        e4 == IF Truthy(params.select)
              THEN ValidateSelectFields(cfg, params.select) ELSE NoErr
        e5 == IF NumGt(params.take, Num(cfg.maxLimit))
              THEN Err("limit", "") ELSE NoErr
    IN IF IsErr(e1) THEN e1
       ELSE IF IsErr(e2) THEN e2
       ELSE IF IsErr(e3) THEN e3
       ELSE IF IsErr(e4) THEN e4
       ELSE e5

(***************************************************************************)
(* _parseQueryParams.                                                      *)
(***************************************************************************)
\* A simple filter `key=value` or `key=operator:value` of the query string:
\* op is "" when the value holds no colon; val is what parseValue makes of
\* the value.
Simple(key, op, val) == [key |-> key, op |-> op, val |-> val]

\* the request without any query parameter
EmptyReq ==
    [filter |-> Undef, include |-> Undef, sort |-> <<>>, fields |-> <<>>,
     page |-> RawAbsent, limit |-> RawAbsent, withDeleted |-> "absent",
     simple |-> <<>>]

\* the plan: skip, take, orderBy, select, include, where
Plan(skip, take, orderBy, select, include, where) ==
    [skip |-> skip, take |-> take, orderBy |-> orderBy, select |-> select,
     include |-> include, where |-> where]
NoPlan == Plan(Num(0), Num(0), Undef, Undef, Undef, Undef)

Returned(plan) == [status |-> "plan", err |-> NoErr, plan |-> plan]
Thrown(err) == [status |-> "error", err |-> err, plan |-> NoPlan]
NoResult == [status |-> "none", err |-> NoErr, plan |-> NoPlan]

\* page: Math.max(1, typeof page === "string" ? parseInt(page, 10)
\*                                            : Number(page) || 1)
ParsedPage(r) ==
    MathMax(Num(1), IF r.page.k = "absent" THEN Num(1) ELSE ParseInt(r.page))

\* the page size as requested, without the Math.min
ParsedLimit_Unclamped(cfg, r) ==
    IF r.limit.k = "absent" THEN Num(10) ELSE ParseInt(r.limit)

\* limit: Math.min(typeof limit === "string" ? parseInt(limit, 10)
\*                                           : Number(limit) || 10, maxLimit)
ParsedLimit(cfg, r) ==
    MathMin(IF r.limit.k = "absent" THEN Num(10) ELSE ParseInt(r.limit),
            Num(cfg.maxLimit))

\* sort: the pairs with a field and a direction of asc or desc, as orderBy
RECURSIVE OrderByFrom(_, _, _)
OrderByFrom(sort, i, kids) ==
    IF i > Len(sort) THEN kids
    ELSE OrderByFrom(sort, i + 1,
            IF sort[i].field # "" /\ sort[i].dir \in {"asc", "desc"}
            THEN SetKey(kids, sort[i].field, Prim)
            ELSE kids)

\* fields: every name of the list as a key of select
RECURSIVE SelectFrom(_, _, _)
SelectFrom(fields, i, kids) ==
    IF i > Len(fields) THEN kids
    ELSE SelectFrom(fields, i + 1, SetKey(kids, fields[i], Prim))

\* !withDeleted: the flag is a query string, so only "" and absence are falsy
WithDeletedFalsy(r) == r.withDeleted \in {"absent", ""}

\* where after the soft-delete marker is set
InjectDeletedAt(cfg, r, kids) ==
    IF cfg.hasSoftDelete /\ WithDeletedFalsy(r)
    THEN SetKey(kids, "deletedAt", Null)
    ELSE kids

\* the loop over the simple filters, from the i-th on
RECURSIVE ApplySimpleFilters(_, _, _)
ApplySimpleFilters(simple, i, kids) ==
    IF i > Len(simple) THEN kids
    ELSE LET f == simple[i]
             old == Get(Obj(kids), f.key)
             new == IF f.op # ""
                    THEN Obj(SetKey(Spread(old), f.op, f.val))
                    ELSE f.val
         IN ApplySimpleFilters(simple, i + 1, SetKey(kids, f.key, new))

\* the where object handed to validation
BuildWhere(cfg, r) ==
    ApplySimpleFilters(r.simple, 1,
        InjectDeletedAt(cfg, r, Spread(r.filter)))

\* queryParams as assembled before validation
BuildQueryParams(cfg, r) ==
    LET parsedPage == ParsedPage(r)
        parsedLimit == ParsedLimit(cfg, r)
        skip == NumMul(NumSub(parsedPage, Num(1)), parsedLimit)
        orderBy == OrderByFrom(r.sort, 1, <<>>)
        where == BuildWhere(cfg, r)
    IN Plan(skip, parsedLimit,
            IF Len(orderBy) > 0 THEN Obj(orderBy) ELSE Undef,
            IF Len(r.fields) > 0
            THEN Obj(SelectFrom(r.fields, 1, <<>>)) ELSE Undef,
            IF Truthy(r.include) THEN r.include ELSE Undef,
            IF Len(where) > 0 THEN Obj(where) ELSE Undef)

\* _parseQueryParams(req): the plan it returns or the error it throws
ParseQueryParams(cfg, r) ==
    IF r.filter.t = "invalid" THEN Thrown(Err("json_filter", ""))
    ELSE IF r.include.t = "invalid" THEN Thrown(Err("json_include", ""))
    ELSE LET queryParams == BuildQueryParams(cfg, r)
             e == ValidateQueryParams(cfg, queryParams)
         IN IF IsErr(e) THEN Thrown(e) ELSE Returned(queryParams)

(***************************************************************************)
(* The inputs of the query handler: the security configurations a          *)
(* controller is constructed with and the query parameters of a request.   *)
(***************************************************************************)
FilterNames == {"email", "status", "deletedAt"}

\* the security configurations handed to the constructor
Configs ==
    { NoConfig,
      Partial({"allowedFilters", "maxLimit"},
              [DEFAULT_SECURITY_CONFIG EXCEPT !.allowedFilters = {"email"},
                                              !.maxLimit = 50]),
      Partial(DOMAIN DEFAULT_SECURITY_CONFIG,
              [allowedFilters |-> {"email"},
               allowedSortFields |-> {"status"},
               allowedIncludeRelations |-> {"posts"},
               allowedSelectFields |-> {"email", "status"},
               maxIncludeDepth |-> 2,
               maxLimit |-> 20,
               hasSoftDelete |-> TRUE,
               maximumNestedDepth |-> 2]),
      Partial({"hasSoftDelete"},
              [DEFAULT_SECURITY_CONFIG EXCEPT !.hasSoftDelete = TRUE]),
      Partial({"allowedFilters", "allowedIncludeRelations"},
              [DEFAULT_SECURITY_CONFIG EXCEPT
                    !.allowedFilters = {"email", "status", "posts"},
                    !.allowedIncludeRelations = {"posts", "email"}]) }

\* values of the filter parameter: text that does not parse, and the JSON
\* values it parses to
FilterInputs ==
    {Invalid, Null, Obj(<<>>)}
    \cup {Obj1(n, Prim) : n \in FilterNames}
    \cup {Obj1(n, Obj1("secret", Prim)) : n \in {"email", "deletedAt"}}
    \cup {Obj1(g, Arr1(Obj1(n, Prim))) :
            g \in LogicalKeys, n \in {"email", "status"}}
    \cup {Obj1("NOT", Obj1(n, Prim)) : n \in {"email", "status"}}
    \cup {Obj1("AND", v) : v \in {Prim, Null, Arr1(StrNode)}}
    \cup {Obj1("AND", Arr1(Obj1("OR", Arr1(Obj1(n, Prim))))) :
            n \in {"email", "status"}}
    \cup {Obj(<<<<a, Prim>>, <<b, Prim>>>>) :
            a \in {"email", "status"}, b \in {"status", "secret"}}

\* values of the include parameter
IncludeOn(k, sub) == Obj1(k, Obj1("include", sub))
IncludeInputs ==
    {Invalid, Prim}
    \cup {Obj1(k, Prim) : k \in {"posts", "secret"}}
    \cup {IncludeOn("posts", Obj1(k, Prim)) : k \in {"posts", "secret"}}
    \cup {IncludeOn("posts", IncludeOn("posts", Obj1(k, Prim))) :
            k \in {"posts", "secret"}}
    \cup {Obj1("posts", Obj1(k, Obj1("secret", Prim))) :
            k \in {"select", "where"}}
    \cup {Obj(<<<<"posts", v>>, <<"secret", Prim>>>>) :
            v \in {Prim, Obj1("include", Obj1("posts", Prim))}}

\* values of the sort parameter: field:direction pairs
SortPair(f, d) == [field |-> f, dir |-> d]
SortInputs ==
    {<<SortPair(f, d)>> : f \in {"status", "secret"}, d \in {"asc", "up"}}
    \cup {<<SortPair("status", "desc"), SortPair("secret", "asc")>>,
          <<SortPair("", "asc")>>}

\* values of the fields parameter
FieldsInputs ==
    {<<"email">>, <<"secret">>, <<"email", "status">>, <<"email", "secret">>}

PageInputs == {RawInt(0), RawInt(2), RawInt(-1), RawJunk}
LimitInputs == {RawInt(0), RawInt(5), RawInt(999), RawInt(-3), RawJunk}
WithDeletedInputs == {"", "true", "false"}

\* simple filters of the query string
SimpleInputs ==
    {Simple(k, op, Prim) :
        k \in {"email", "status", "deletedAt", "AND"},
        op \in {"", "gt", "secret"}}

\* the number of query parameters of a request
NumParams(r) ==
    (IF r.filter = Undef THEN 0 ELSE 1) + (IF r.include = Undef THEN 0 ELSE 1)
    + (IF r.sort = <<>> THEN 0 ELSE 1) + (IF r.fields = <<>> THEN 0 ELSE 1)
    + (IF r.page = RawAbsent THEN 0 ELSE 1)
    + (IF r.limit = RawAbsent THEN 0 ELSE 1)
    + (IF r.withDeleted = "absent" THEN 0 ELSE 1) + Len(r.simple)

(***************************************************************************)
(* The query handler: a controller is constructed, a client composes the   *)
(* query string of a request, and the handler parses it.                   *)
(***************************************************************************)
Building == qpc = "request" /\ NumParams(req) < MaxParams

SetFilter ==
    /\ Building /\ req.filter = Undef
    /\ \E f \in FilterInputs : req' = [req EXCEPT !.filter = f]
    /\ UNCHANGED <<ctorConfig, securityConfig, qpc, qresult, notQ>>

SetInclude ==
    /\ Building /\ req.include = Undef
    /\ \E f \in IncludeInputs : req' = [req EXCEPT !.include = f]
    /\ UNCHANGED <<ctorConfig, securityConfig, qpc, qresult, notQ>>

SetSort ==
    /\ Building /\ req.sort = <<>>
    /\ \E f \in SortInputs : req' = [req EXCEPT !.sort = f]
    /\ UNCHANGED <<ctorConfig, securityConfig, qpc, qresult, notQ>>

SetFields ==
    /\ Building /\ req.fields = <<>>
    /\ \E f \in FieldsInputs : req' = [req EXCEPT !.fields = f]
    /\ UNCHANGED <<ctorConfig, securityConfig, qpc, qresult, notQ>>

SetPage ==
    /\ Building /\ req.page = RawAbsent
    /\ \E f \in PageInputs : req' = [req EXCEPT !.page = f]
    /\ UNCHANGED <<ctorConfig, securityConfig, qpc, qresult, notQ>>

SetLimit ==
    /\ Building /\ req.limit = RawAbsent
    /\ \E f \in LimitInputs : req' = [req EXCEPT !.limit = f]
    /\ UNCHANGED <<ctorConfig, securityConfig, qpc, qresult, notQ>>

SetWithDeleted ==
    /\ Building /\ req.withDeleted = "absent"
    /\ \E f \in WithDeletedInputs : req' = [req EXCEPT !.withDeleted = f]
    /\ UNCHANGED <<ctorConfig, securityConfig, qpc, qresult, notQ>>

\* a further key=value pair; a key occurs once in the query string
AddSimpleFilter ==
    /\ Building
    /\ \E f \in SimpleInputs :
        /\ \A i \in 1..Len(req.simple) : req.simple[i].key # f.key
        /\ req' = [req EXCEPT !.simple = Append(@, f)]
    /\ UNCHANGED <<ctorConfig, securityConfig, qpc, qresult, notQ>>

\* the handler runs _parseQueryParams(req)
Parse ==
    /\ qpc = "request"
    /\ qresult' = ParseQueryParams(securityConfig, req)
    /\ qpc' = "parsed"
    /\ UNCHANGED <<ctorConfig, securityConfig, req, notQ>>

\* the take values of a plan handed to _validateQueryParams directly:
\* below, at and above maxLimit, and NaN
DirectTakes(cfg) ==
    {Num(1), Num(cfg.maxLimit), Num(cfg.maxLimit + 1), NaN}

\* what a direct call of _validateQueryParams did
NoVerdict == [status |-> "none", err |-> NoErr]
Verdict(e) == [status |-> IF IsErr(e) THEN "error" ELSE "passed", err |-> e]

\* _validateQueryParams(params) is called with a plan that did not come out
\* of _parseQueryParams unchanged: the query parameters of the request as
\* assembled, with a take of the caller's choosing
ValidateDirectly ==
    /\ qpc = "parsed"
    /\ req.filter.t # "invalid" /\ req.include.t # "invalid"
    /\ verdict = NoVerdict
    /\ \E t \in DirectTakes(securityConfig) :
          LET p == [BuildQueryParams(securityConfig, req) EXCEPT !.take = t]
          IN  /\ directParams' = p
              /\ verdict' = Verdict(ValidateQueryParams(securityConfig, p))
    /\ UNCHANGED notDirect

(***************************************************************************)
(* BaseController.getAll.                                                  *)
(***************************************************************************)
\* a call on the model client and its argument
ClientCall(op, arg) == [op |-> op, arg |-> arg]
\* what the handler did with res and next
NoResponse == [kind |-> "none", err |-> NoErr]
JsonResponse == [kind |-> "json", err |-> NoErr]
NextError(err) == [kind |-> "next", err |-> err]
\* the store client rejected a call
StoreError == Err("store", "")

\* the calls with the query parameters as assembled, whether or not the
\* validation raised
ClientCallsAfter_Unvalidated(cfg, r, result) ==
    IF r.filter.t = "invalid" \/ r.include.t = "invalid" THEN <<>>
    ELSE <<ClientCall("findMany", BuildQueryParams(cfg, r)),
           ClientCall("count", BuildQueryParams(cfg, r).where)>>

\* lines 660-665: the calls getAll makes once _parseQueryParams has
\* produced result; a throw leaves the try block before them
ClientCallsAfter(cfg, r, result) ==
    IF result.status = "plan"
    THEN <<ClientCall("findMany", result.plan),
           ClientCall("count", result.plan.where)>>
    ELSE <<>>

\* getAll up to its await: the query parameters are translated, then
\* findMany and count are both called; an error thrown by the translation
\* goes to next
GetAll ==
    /\ qpc = "request"
    /\ gpc = "idle"
    /\ LET result == ParseQueryParams(securityConfig, req)
           calls == ClientCallsAfter(securityConfig, req, result)
       IN  /\ qresult' = result
           /\ qpc' = "parsed"
           /\ clientCalls' = calls
           /\ unsettled' = {calls[i].op : i \in 1..Len(calls)}
           /\ IF result.status = "plan"
              THEN gpc' = "awaiting" /\ response' = response
              ELSE gpc' = "done" /\ response' = NextError(result.err)
    /\ UNCHANGED <<ctorConfig, securityConfig, req, notGetAll>>

\* one of the two promises resolves; Promise.all resolves with the second
\* and the response is sent
ClientResolves ==
    /\ gpc = "awaiting"
    /\ \E op \in unsettled :
          /\ unsettled' = unsettled \ {op}
          /\ IF unsettled = {op}
             THEN gpc' = "done" /\ response' = JsonResponse
             ELSE gpc' = gpc /\ response' = response
    /\ UNCHANGED <<qvars, clientCalls, notGetAll>>

\* one of the two promises rejects: Promise.all rejects and the error goes
\* to next
ClientRejects ==
    /\ gpc = "awaiting"
    /\ \E op \in unsettled : unsettled' = unsettled \ {op}
    /\ gpc' = "done"
    /\ response' = NextError(StoreError)
    /\ UNCHANGED <<qvars, clientCalls, notGetAll>>

(***************************************************************************)
(* runInTransaction.                                                       *)
(***************************************************************************)
\* the retryable store error codes (constants/Prisma.errors)
RETRYABLE_ERRORS == {"P2034", "P1017"}
\* error codes a failing unit of work carries; "none" is an error without
\* a code property
ErrorCodes == RETRYABLE_ERRORS \cup {"P2002", "none"}

DefaultMaxRetries == 3
BackoffBaseMs == 100

\* an error: its code, where it was made, and the attempt it came from
Error(code, src, attempt) == [code |-> code, src |-> src, attempt |-> attempt]
NoError == Error("none", "null", 0)
\* new Error(`Transaction timeout after ${timeoutMs}ms`): no code property
TimeoutError(attempt) == Error("none", "timeout", attempt)
\* the error thrown when the loop never caught one
GenericFailure == Error("none", "generic", 0)

\* what a start of the unit of work does: it resolves after its writes,
\* rejects with a coded error, or is still running when the timer fires
UowOk == [kind |-> "ok", code |-> "none"]
UowReject(code) == [kind |-> "reject", code |-> code]
UowHang == [kind |-> "hang", code |-> "none"]
UowBehaviours == {UowOk, UowHang} \cup {UowReject(c) : c \in ErrorCodes}

Returns(attempt) == [kind |-> "returned", err |-> NoError, attempt |-> attempt]
Raises(err) == [kind |-> "raised", err |-> err, attempt |-> 0]
Pending == [kind |-> "pending", err |-> NoError, attempt |-> 0]

\* the test with the error code left out of it
GivesUp_IgnoresCode(v, err, r, max) ==
    IF v = "base" THEN r = max - 1 ELSE r + 1 >= max

\* the test with the last attempt put one round too late
GivesUp_OneLate(v, err, r, max) ==
    IF v = "base"
    THEN err.code \notin RETRYABLE_ERRORS \/ r = max
    ELSE err.code \notin RETRYABLE_ERRORS \/ r >= max

\* the catch block's test for giving up: base breaks out of the loop when
\* the code is not retryable or retry === maxRetries - 1; models has already
\* counted the failure and throws when retries >= maxRetries
GivesUp(v, err, r, max) ==
    IF v = "base"
    THEN err.code \notin RETRYABLE_ERRORS \/ r = max - 1
    ELSE err.code \notin RETRYABLE_ERRORS \/ r + 1 >= max

\* a backoff that does not grow
BackoffMs_Constant(v, r) == BackoffBaseMs

\* the backoff: 100 * Math.pow(2, retry) in base, 100 * 2 ** retries in
\* models, where the failure has already been counted
BackoffMs(v, r) ==
    IF v = "base" THEN BackoffBaseMs * 2^r ELSE BackoffBaseMs * 2^(r + 1)

\* the loop counter once the catch block has run: models counts in the catch
\* block, base in the for statement after the backoff
CounterAfterCatch(v, r) == IF v = "base" THEN r ELSE r + 1
CounterAfterBackoff(v, r) == IF v = "base" THEN r + 1 ELSE r

\* a commit that keeps the first write only
CommitOf_FirstOnly(attempt, n) == {<<attempt, 1>>}

\* the writes a transaction commits when its callback resolves
CommitOf(attempt, n) == {<<attempt, i>> : i \in 1..n}
\* a rejected callback whose writes stay
RollbackOf_KeepsWrites(attempt, n) == {<<attempt, i>> : i \in 1..n}

\* the writes a transaction leaves when its callback rejects: it rolls back
RollbackOf(attempt, n) == {}

\* the catch block, entered with the error of the failed attempt
Catch(err) ==
    /\ lastError' = err
    /\ IF GivesUp(variant, err, retry, maxRetries)
       THEN /\ tpc' = "raised"
            /\ txOutcome' = Raises(err)
            /\ UNCHANGED waits
            /\ retry' = CounterAfterCatch(variant, retry)
       ELSE /\ tpc' = "backoff"
            /\ waits' = Append(waits, BackoffMs(variant, retry))
            /\ retry' = CounterAfterCatch(variant, retry)
            /\ UNCHANGED txOutcome

\* the loop test holds: $transaction opens a transaction and the callback
\* starts the unit of work and the timer
BeginAttempt ==
    /\ tpc = "loop" /\ retry < maxRetries
    /\ attempts' = attempts + 1
    /\ inflight' = inflight \cup {attempts + 1}
    /\ staged' = 0
    /\ tpc' = "attempt"
    /\ UNCHANGED <<variant, maxRetries, script, retry, committed, waits,
                   lastError, txOutcome, lateOps,
                   notTx>>

\* the loop test fails with nothing thrown from inside the loop:
\* throw lastError || new Error("Transaction failed")
LoopExit ==
    /\ tpc = "loop" /\ retry >= maxRetries
    /\ tpc' = "raised"
    /\ txOutcome' = Raises(IF lastError = NoError THEN GenericFailure
                           ELSE lastError)
    /\ UNCHANGED <<variant, maxRetries, script, retry, attempts, staged,
                   committed, waits, lastError, inflight, lateOps,
                   notTx>>

\* the running unit of work issues a write on tx
UowWrite ==
    /\ tpc = "attempt" /\ staged < NumWrites
    /\ staged' = staged + 1
    /\ UNCHANGED <<variant, maxRetries, script, tpc, retry, attempts,
                   committed, waits, lastError, txOutcome, inflight, lateOps,
                   notTx>>

\* the unit of work resolves before the timer: the callback resolves, the
\* transaction commits and runInTransaction returns the result
UowResolves ==
    /\ tpc = "attempt" /\ script[attempts].kind = "ok" /\ staged = NumWrites
    /\ committed' = committed \cup CommitOf(attempts, staged)
    /\ staged' = 0
    /\ inflight' = inflight \ {attempts}
    /\ tpc' = "returned"
    /\ txOutcome' = Returns(attempts)
    /\ UNCHANGED <<variant, maxRetries, script, retry, attempts, waits,
                   lastError, lateOps,
                   notTx>>

\* the unit of work (or the transaction itself) rejects before the timer:
\* the transaction rolls back and the catch block runs
UowRejects ==
    /\ tpc = "attempt" /\ script[attempts].kind = "reject"
    /\ committed' = committed \cup RollbackOf(attempts, staged)
    /\ staged' = 0
    /\ inflight' = inflight \ {attempts}
    /\ Catch(Error(script[attempts].code, "uow", attempts))
    /\ UNCHANGED <<variant, maxRetries, script, attempts, lateOps,
                   notTx>>

\* the timer fires first: the race rejects with the timeout error, the
\* transaction rolls back and the catch block runs; the unit of work is
\* not cancelled
Timeout ==
    /\ tpc = "attempt" /\ script[attempts].kind = "hang"
    /\ committed' = committed \cup RollbackOf(attempts, staged)
    /\ staged' = 0
    /\ Catch(TimeoutError(attempts))
    /\ UNCHANGED <<variant, maxRetries, script, attempts, inflight, lateOps,
                   notTx>>

\* the backoff timer fires and the loop goes round
BackoffDone ==
    /\ tpc = "backoff"
    /\ retry' = CounterAfterBackoff(variant, retry)
    /\ tpc' = "loop"
    /\ UNCHANGED <<variant, maxRetries, script, attempts, staged, committed,
                   waits, lastError, txOutcome, inflight, lateOps,
                   notTx>>

\* a unit of work that lost the race goes on: its next operation reaches
\* the store on a closed transaction and fails, and it settles
LateOperation ==
    /\ \E a \in inflight :
        /\ ~(tpc = "attempt" /\ a = attempts)
        /\ inflight' = inflight \ {a}
    /\ lateOps' = lateOps + 1
    /\ UNCHANGED <<variant, maxRetries, script, tpc, retry, attempts, staged,
                   committed, waits, lastError, txOutcome,
                   notTx>>

(***************************************************************************)
(* BaseModel.queryRaw (src/src/core/base/BaseModel.ts).                    *)
(*                                                                         *)
(* A query text is the sequence of its tokens; the text itself is the      *)
(* tokens joined by one space, except that "." has no space on either side *)
(* (users.id).  The regular expressions of the code are evaluated on the   *)
(* tokens.  No word of the vocabulary contains a keyword of the patterns   *)
(* (from, join, into, update, set, ...) as a proper part, so a pattern     *)
(* that matches in the text matches at a token.                            *)
(***************************************************************************)
\* result rows the store may answer with: 0..MaxRows
MaxRows == 2

\* maxQueryLength and maxResultRows of the default whitelist
DefaultMaxQueryLength == 5000
DefaultMaxResultRows == 1000

Tables == {"users", "secrets"}
Columns == {"id", "pw"}
Keywords ==
    {"select", "from", "join", "inner", "left", "right", "full", "insert",
     "into", "update", "set", "delete", "order", "by", "values", "where",
     "drop", "table", "as"}
\* inline values: '...' and "..." strings, numbers (an integer, a decimal,
\* one in exponent notation), null
Literals == {"'x'", "\"x\"", "1", "1.5", "1e5", "null"}

\* String.prototype.toLowerCase / toUpperCase on one token
LowerOf(t) ==
    CASE t = "SELECT" -> "select"
      [] t = "FROM" -> "from"
      [] t = "SECRETS" -> "secrets"
      [] OTHER -> t
UpperOf(t) ==
    CASE t = "select" -> "SELECT"
      [] t = "insert" -> "INSERT"
      [] t = "update" -> "UPDATE"
      [] t = "delete" -> "DELETE"
      [] t = "drop" -> "DROP"
      [] OTHER -> t
ToLowerCase(toks) == [i \in 1..Len(toks) |-> LowerOf(toks[i])]

\* t matches [a-z_][a-z0-9_]* as a whole (the patterns carry the i flag or
\* are applied to the lower-cased text)
IsWord(t) == LowerOf(t) \in Keywords \cup Tables \cup Columns \cup {"null"}

\* the argument of queryRaw: a string, given by its tokens, or something
\* that is not a string
RawString(toks) == [isString |-> TRUE, toks |-> toks]
NotAString == [isString |-> FALSE, toks |-> <<>>]
\* the values argument: an array of n values, or something that is no array
ValuesArray(n) == [isArray |-> TRUE, len |-> n]
ValuesNoArray == [isArray |-> FALSE, len |-> 0]

\* query.length
RECURSIVE QueryLength(_)
QueryLength(toks) ==
    IF toks = <<>> THEN 0
    ELSE IF Len(toks) = 1 THEN Len(toks[1])
    ELSE Len(toks[1])
         + (IF toks[1] = "." \/ toks[2] = "." THEN 0 ELSE 1)
         + QueryLength(Tail(toks))

\* columns[table]: "*", a list of names, or undefined
ColStar == [k |-> "star", cols |-> {}]
ColList(S) == [k |-> "list", cols |-> S]
ColUndefined == [k |-> "undef", cols |-> {}]
ColumnsOf(wl, t) ==
    IF t \in DOMAIN wl.columns THEN wl.columns[t] ELSE ColUndefined

\* a JoinConfig, or the absence of one
JoinConfig(allowed, tables, hasTypes, types) ==
    [present |-> TRUE, allowed |-> allowed, tables |-> tables,
     hasTypes |-> hasTypes, types |-> types]
NoJoinConfig ==
    [present |-> FALSE, allowed |-> FALSE, tables |-> {},
     hasTypes |-> FALSE, types |-> {}]
\* joins: a boolean or a record of JoinConfig by table
JoinsBool(b) == [k |-> "bool", b |-> b, rec |-> [t \in Tables |-> NoJoinConfig]]
JoinsRecord(r) == [k |-> "record", b |-> TRUE, rec |-> r]

\* a SortConfig, or the absence of one; maxColumns 0 stands for undefined
SortConfig(allowed, maxColumns, allowedColumns) ==
    [present |-> TRUE, allowed |-> allowed, maxColumns |-> maxColumns,
     allowedColumns |-> allowedColumns]
NoSortConfig ==
    [present |-> FALSE, allowed |-> FALSE, maxColumns |-> 0,
     allowedColumns |-> ColUndefined]
SortingBool(b) ==
    [k |-> "bool", b |-> b, rec |-> [t \in Tables |-> NoSortConfig]]
SortingRecord(r) == [k |-> "record", b |-> TRUE, rec |-> r]

\* allowedOperations: a list of verbs, or undefined
Operations(S) == [defined |-> TRUE, ops |-> S]
NoOperations == [defined |-> FALSE, ops |-> {}]

\* static queryWhitelist of BaseModel
DefaultQueryWhitelist ==
    [rawQueryEnabled |-> FALSE,
     tables |-> {},
     columns |-> [t \in Tables |-> ColUndefined],
     allowedOperations |-> Operations({"SELECT"}),
     maxQueryLength |-> DefaultMaxQueryLength,
     parameterizedOnly |-> TRUE,
     joins |-> JoinsBool(FALSE),
     sorting |-> SortingBool(FALSE),
     maxResultRows |-> DefaultMaxResultRows]

\* the characters of the tokens that hold a digit; no other token of the
\* vocabulary holds one
CharsOf(t) ==
    CASE t = "1" -> <<"1">>
      [] t = "1.5" -> <<"1", ".", "5">>
      [] t = "1e5" -> <<"1", "e", "5">>
      [] OTHER -> <<>>
IsDigit(c) == c \in {"1", "5"}
\* \w: a letter, a digit or _
IsWordChar(c) == c \in {"1", "5", "e"}
\* /\b\d+\b/ has a match in the token: a run of digits with no word
\* character next to it on either side
MatchesNumber(t) ==
    LET chars == CharsOf(t)
    IN  \E i \in 1..Len(chars) : \E j \in i..Len(chars) :
           /\ \A k \in i..j : IsDigit(chars[k])
           /\ i = 1 \/ ~IsWordChar(chars[i - 1])
           /\ j = Len(chars) \/ ~IsWordChar(chars[j + 1])
\* one of the four patterns /'[^']*'/, /"[^"]*"/, /\b\d+\b/, /null/i has a
\* match in the token
MatchesInlineValue(t) ==
    \/ t \in {"'x'", "\"x\""}
    \/ MatchesNumber(t)
    \/ LowerOf(t) = "null"

\* validateParameterizedOnly: the "?" are removed, then each pattern is
\* tested: '...', "...", a number, null
ValidateParameterizedOnly(toks) ==
    LET testQuery == SelectSeq(toks, LAMBDA t : t # "?")
    IN  IF \E i \in 1..Len(testQuery) : MatchesInlineValue(testQuery[i])
        THEN Err("notParameterized", "")
        ELSE NoErr

\* the captures of /k1\s+...\s+kn\s+([a-z_][a-z0-9_]*)/gi in q, from token i
\* on, left to right; a match consumes its tokens
RECURSIVE CapturesFrom(_, _, _)
CapturesFrom(q, kws, i) ==
    IF i + Len(kws) > Len(q) THEN <<>>
    ELSE IF /\ \A j \in 1..Len(kws) : q[i + j - 1] = kws[j]
            /\ IsWord(q[i + Len(kws)])
         THEN <<q[i + Len(kws)]>> \o CapturesFrom(q, kws, i + Len(kws) + 1)
         ELSE CapturesFrom(q, kws, i + 1)

\* extractAllTables: the five patterns in turn
ExtractAllTables(q) ==
    CapturesFrom(q, <<"from">>, 1)
    \o CapturesFrom(q, <<"join">>, 1)
    \o CapturesFrom(q, <<"insert", "into">>, 1)
    \o CapturesFrom(q, <<"update">>, 1)
    \o CapturesFrom(q, <<"delete", "from">>, 1)

\* [...new Set(tables)]: the first occurrence of each element, in order
RECURSIVE Unique(_)
Unique(s) ==
    IF s = <<>> THEN <<>>
    ELSE LET init == Unique(SubSeq(s, 1, Len(s) - 1))
             last == s[Len(s)]
         IN  IF \E i \in 1..Len(init) : init[i] = last
             THEN init
             ELSE Append(init, last)

\* the first error a sequence of checks produces
RECURSIVE FirstError(_)
FirstError(errs) ==
    IF errs = <<>> THEN NoErr
    ELSE IF IsErr(errs[1]) THEN errs[1]
    ELSE FirstError(Tail(errs))

\* validateQuery, lines 185-189: every extracted table is in tables
ValidateTables(wl, uniqueTables) ==
    FirstError([i \in 1..Len(uniqueTables) |->
        IF uniqueTables[i] \in wl.tables
        THEN NoErr
        ELSE Err("disallowedTable", uniqueTables[i])])

JoinTypes == {"inner", "left", "right", "full"}

\* the matches of /(inner|left|right|full)\s+join\s+([a-z_][a-z0-9_]*)/gi
\* as <<type, table>> pairs
RECURSIVE JoinMatchesFrom(_, _)
JoinMatchesFrom(q, i) ==
    IF i + 2 > Len(q) THEN <<>>
    ELSE IF q[i] \in JoinTypes /\ q[i + 1] = "join" /\ IsWord(q[i + 2])
         THEN <<<<q[i], q[i + 2]>>>> \o JoinMatchesFrom(q, i + 3)
         ELSE JoinMatchesFrom(q, i + 1)

GetJoinConfig(wl, table) ==
    IF wl.joins.k = "bool"
    THEN IF wl.joins.b THEN JoinConfig(TRUE, {}, FALSE, {}) ELSE NoJoinConfig
    ELSE IF table \in DOMAIN wl.joins.rec
         THEN wl.joins.rec[table]
         ELSE NoJoinConfig

\* the checks of validateJoins on one match
JoinError(wl, tables, joinType, joinTable) ==
    LET joinConfig == GetJoinConfig(wl, joinTable)
    IN  IF ~joinConfig.present \/ ~joinConfig.allowed
        THEN Err("joinNotAllowed", joinTable)
        ELSE IF joinConfig.hasTypes /\ joinType \notin joinConfig.types
        THEN Err("joinType", joinTable)
        ELSE IF /\ joinConfig.tables # {}
                /\ ~\E i \in 1..Len(tables) :
                        tables[i] # joinTable /\ tables[i] \in joinConfig.tables
        THEN Err("joinRelationship", joinTable)
        ELSE NoErr

ValidateJoins(wl, q, tables) ==
    LET joinMatches == JoinMatchesFrom(q, 1)
    IN  FirstError([i \in 1..Len(joinMatches) |->
            JoinError(wl, tables, joinMatches[i][1], joinMatches[i][2])])

\* /order\s+by\s+([^;]+)(?:\s|;|$)/i: the tokens after the first
\* "order by" (no query of the model holds a ";"); <<>> when there is no
\* match
OrderByClause(q) ==
    IF \E i \in 1..Len(q) : i + 2 <= Len(q) /\ q[i] = "order" /\ q[i + 1] = "by"
    THEN LET i == CHOOSE i \in 1..Len(q) :
                      /\ i + 2 <= Len(q) /\ q[i] = "order" /\ q[i + 1] = "by"
                      /\ \A j \in 1..(i - 1) :
                             ~(q[j] = "order" /\ q[j + 1] = "by")
         IN  SubSeq(q, i + 2, Len(q))
    ELSE <<>>

\* the matches of /([a-z_][a-z0-9_]*)(?:\.([a-z_][a-z0-9_]*))?/gi in the
\* clause, as <<match[1], match[2] || match[1]>>
RECURSIVE ColumnMatchesFrom(_, _)
ColumnMatchesFrom(c, j) ==
    IF j > Len(c) THEN <<>>
    ELSE IF ~IsWord(c[j]) THEN ColumnMatchesFrom(c, j + 1)
    ELSE IF j + 2 <= Len(c) /\ c[j + 1] = "." /\ IsWord(c[j + 2])
         THEN <<<<c[j], c[j + 2]>>>> \o ColumnMatchesFrom(c, j + 3)
         ELSE <<<<c[j], c[j]>>>> \o ColumnMatchesFrom(c, j + 1)

GetSortConfig(wl, table) ==
    IF wl.sorting.k = "bool"
    THEN IF wl.sorting.b
         THEN SortConfig(TRUE, 0, ColUndefined)
         ELSE NoSortConfig
    ELSE IF table \in DOMAIN wl.sorting.rec
         THEN wl.sorting.rec[table]
         ELSE NoSortConfig

\* the checks of validateSorting on the columnCount-th match
SortError(wl, tableName, columnName, columnCount) ==
    LET sortConfig == GetSortConfig(wl, tableName)
        tableColumns == ColumnsOf(wl, tableName)
    IN  IF ~sortConfig.present \/ ~sortConfig.allowed
        THEN Err("sortNotAllowed", tableName)
        ELSE IF sortConfig.maxColumns # 0 /\ columnCount > sortConfig.maxColumns
        THEN Err("sortMaxColumns", "")
        ELSE IF /\ sortConfig.allowedColumns.k = "list"
                /\ columnName \notin sortConfig.allowedColumns.cols
        THEN Err("sortColumn", columnName)
        ELSE IF tableColumns.k = "list" /\ columnName \notin tableColumns.cols
        THEN Err("columnNotInWhitelist", columnName)
        ELSE NoErr

ValidateSorting(wl, q) ==
    LET columnMatches == ColumnMatchesFrom(OrderByClause(q), 1)
    IN  FirstError([i \in 1..Len(columnMatches) |->
            SortError(wl, columnMatches[i][1], columnMatches[i][2], i)])

\* the columns the three patterns of validateSelectQuery capture for a
\* table: table.column, column.table, column as table.
RECURSIVE QualifiedFrom(_, _, _)
QualifiedFrom(q, table, i) ==
    IF i + 2 > Len(q) THEN <<>>
    ELSE IF q[i] = table /\ q[i + 1] = "." /\ IsWord(q[i + 2])
         THEN <<q[i + 2]>> \o QualifiedFrom(q, table, i + 3)
         ELSE QualifiedFrom(q, table, i + 1)
RECURSIVE QualifierOfFrom(_, _, _)
QualifierOfFrom(q, table, i) ==
    IF i + 2 > Len(q) THEN <<>>
    ELSE IF IsWord(q[i]) /\ q[i + 1] = "." /\ q[i + 2] = table
         THEN <<q[i]>> \o QualifierOfFrom(q, table, i + 3)
         ELSE QualifierOfFrom(q, table, i + 1)
RECURSIVE AliasedFrom(_, _, _)
AliasedFrom(q, table, i) ==
    IF i + 3 > Len(q) THEN <<>>
    ELSE IF /\ IsWord(q[i]) /\ q[i + 1] = "as"
            /\ q[i + 2] = table /\ q[i + 3] = "."
         THEN <<q[i]>> \o AliasedFrom(q, table, i + 4)
         ELSE AliasedFrom(q, table, i + 1)

\* allowedColumns.includes(column) for each capture; allowedColumns may be
\* undefined, and then the call throws a TypeError
SelectErrorFor(wl, q, table) ==
    LET allowedColumns == ColumnsOf(wl, table)
        columns == QualifiedFrom(q, table, 1)
                   \o QualifierOfFrom(q, table, 1)
                   \o AliasedFrom(q, table, 1)
    IN  IF allowedColumns.k = "star" THEN NoErr
        ELSE FirstError([i \in 1..Len(columns) |->
                IF allowedColumns.k = "undef"
                THEN Err("typeError", columns[i])
                ELSE IF columns[i] \in allowedColumns.cols
                THEN NoErr
                ELSE Err("disallowedColumn", columns[i])])

ValidateSelectQuery(wl, q, tables) ==
    FirstError([i \in 1..Len(tables) |-> SelectErrorFor(wl, q, tables[i])])

\* the elements of a token sequence split at ","
RECURSIVE SplitOnComma(_)
SplitOnComma(s) ==
    IF \E i \in 1..Len(s) : s[i] = ","
    THEN LET i == CHOOSE i \in 1..Len(s) :
                      s[i] = "," /\ \A j \in 1..(i - 1) : s[j] # ","
         IN  <<SubSeq(s, 1, i - 1)>> \o SplitOnComma(SubSeq(s, i + 1, Len(s)))
    ELSE <<s>>

\* /\(([^)]+)\)\s*values/i: the first "(" whose group is not empty, closes
\* at the next ")" and is followed by "values"; <<>> when there is none
ColumnGroup(q) ==
    LET Closes(i, j) ==
            /\ i + 1 < j /\ j < Len(q)
            /\ q[i] = "(" /\ q[j] = ")" /\ q[j + 1] = "values"
            /\ \A m \in (i + 1)..(j - 1) : q[m] # ")"
        Opens(i) == \E j \in 1..Len(q) : Closes(i, j)
    IN  IF \E i \in 1..Len(q) : Opens(i)
        THEN LET i == CHOOSE i \in 1..Len(q) :
                          Opens(i) /\ \A m \in 1..(i - 1) : ~Opens(m)
                 j == CHOOSE j \in 1..Len(q) : Closes(i, j)
             IN  SubSeq(q, i + 1, j - 1)
        ELSE <<>>

ValidateInsertQuery(wl, q) ==
    LET tableMatch == CapturesFrom(q, <<"insert", "into">>, 1)
    IN  IF tableMatch = <<>> THEN NoErr
        ELSE LET allowedColumns == ColumnsOf(wl, tableMatch[1])
                 group == ColumnGroup(q)
                 columns == SplitOnComma(group)
             IN  IF allowedColumns.k # "list" \/ group = <<>> THEN NoErr
                 ELSE FirstError([i \in 1..Len(columns) |->
                        IF /\ Len(columns[i]) = 1
                           /\ columns[i][1] \in allowedColumns.cols
                        THEN NoErr
                        ELSE Err("insertColumn",
                                 IF columns[i] = <<>> THEN ""
                                 ELSE columns[i][1])])

\* the captures of /set\s+([a-z_][a-z0-9_]*)\s*=/gi
RECURSIVE SetMatchesFrom(_, _)
SetMatchesFrom(q, i) ==
    IF i + 2 > Len(q) THEN <<>>
    ELSE IF q[i] = "set" /\ IsWord(q[i + 1]) /\ q[i + 2] = "="
         THEN <<q[i + 1]>> \o SetMatchesFrom(q, i + 3)
         ELSE SetMatchesFrom(q, i + 1)

ValidateUpdateQuery(wl, q) ==
    LET tableMatch == CapturesFrom(q, <<"update">>, 1)
    IN  IF tableMatch = <<>> THEN NoErr
        ELSE LET allowedColumns == ColumnsOf(wl, tableMatch[1])
                 setMatches == SetMatchesFrom(q, 1)
             IN  IF allowedColumns.k # "list" THEN NoErr
                 ELSE FirstError([i \in 1..Len(setMatches) |->
                        IF setMatches[i] \in allowedColumns.cols
                        THEN NoErr
                        ELSE Err("updateColumn", setMatches[i])])

\* validateDeleteQuery has an empty body
ValidateDeleteQuery(wl, q) == NoErr

\* validateQuery with the JOIN checks left out
ValidateQuery_SkipsJoins(wl, q, operation) ==
    LET uniqueTables == Unique(ExtractAllTables(q))
    IN  FirstError(<<
            ValidateTables(wl, uniqueTables),
            IF wl.sorting.b THEN ValidateSorting(wl, q) ELSE NoErr,
            CASE operation = "select" ->
                     ValidateSelectQuery(wl, q, uniqueTables)
              [] operation = "insert" -> ValidateInsertQuery(wl, q)
              [] operation = "update" -> ValidateUpdateQuery(wl, q)
              [] operation = "delete" -> ValidateDeleteQuery(wl, q)
              [] OTHER -> NoErr >>)

\* validateQuery: tables, then joins and sorting when they are configured,
\* then the checks of the operation
ValidateQuery(wl, q, operation) ==
    LET uniqueTables == Unique(ExtractAllTables(q))
    IN  FirstError(<<
            ValidateTables(wl, uniqueTables),
            IF wl.joins.b THEN ValidateJoins(wl, q, uniqueTables) ELSE NoErr,
            IF wl.sorting.b THEN ValidateSorting(wl, q) ELSE NoErr,
            CASE operation = "select" ->
                     ValidateSelectQuery(wl, q, uniqueTables)
              [] operation = "insert" -> ValidateInsertQuery(wl, q)
              [] operation = "update" -> ValidateUpdateQuery(wl, q)
              [] operation = "delete" -> ValidateDeleteQuery(wl, q)
              [] OTHER -> NoErr >>)

\* the checks of queryRaw before the try block, lines 93-129: the error
\* thrown first, or NoErr
QueryRawError(wl, query, values) ==
    IF ~wl.rawQueryEnabled THEN Err("rawDisabled", "")
    ELSE IF ~query.isString \/ query.toks = <<>> THEN Err("emptyQuery", "")
    ELSE IF ~values.isArray THEN Err("valuesNotArray", "")
    ELSE IF /\ wl.maxQueryLength # 0
            /\ QueryLength(query.toks) > wl.maxQueryLength
    THEN Err("tooLong", "")
    ELSE IF /\ wl.parameterizedOnly
            /\ IsErr(ValidateParameterizedOnly(query.toks))
    THEN ValidateParameterizedOnly(query.toks)
    ELSE LET queryLower == ToLowerCase(query.toks)
             operation == queryLower[1]
         IN  IF ~(/\ wl.allowedOperations.defined
                  /\ UpperOf(operation) \in wl.allowedOperations.ops)
             THEN Err("disallowedOperation", operation)
             ELSE ValidateQuery(wl, queryLower, operation)

\* result.slice(0, maxResultRows) when maxResultRows is set
SliceRows(wl, n) ==
    IF wl.maxResultRows # 0 /\ n > wl.maxResultRows
    THEN wl.maxResultRows
    ELSE n

\* what the caller of queryRaw received
RawPending == [kind |-> "pending", err |-> NoErr, rows |-> 0]
RawReturns(n) == [kind |-> "returned", err |-> NoErr, rows |-> n]
RawRaises(err) == [kind |-> "raised", err |-> err, rows |-> 0]

\* the whitelists a model class declares
ColumnChoices ==
    { [t \in Tables |-> IF t = "users" THEN ColList({"id"}) ELSE ColUndefined],
      [t \in Tables |-> ColStar],
      [t \in Tables |-> ColList({"id"})] }
OperationChoices ==
    { Operations({"SELECT"}),
      Operations({"SELECT", "INSERT", "UPDATE", "DELETE"}),
      NoOperations }
JoinChoices ==
    { JoinsBool(FALSE), JoinsBool(TRUE),
      JoinsRecord([t \in Tables |->
          IF t = "users"
          THEN JoinConfig(TRUE, {"secrets"}, TRUE, {"inner"})
          ELSE NoJoinConfig]) }
SortingChoices ==
    { SortingBool(FALSE), SortingBool(TRUE),
      SortingRecord([t \in Tables |->
          IF t = "users"
          THEN SortConfig(TRUE, 1, ColList({"id"}))
          ELSE NoSortConfig]) }
EnabledWhitelist ==
    [DefaultQueryWhitelist EXCEPT
        !.rawQueryEnabled = TRUE,
        !.tables = {"users"},
        !.columns = [t \in Tables |-> ColStar]]
Whitelists ==
    {DefaultQueryWhitelist}
    \cup { [DefaultQueryWhitelist EXCEPT
               !.rawQueryEnabled = e, !.tables = ts, !.columns = cs,
               !.allowedOperations = ops, !.parameterizedOnly = p,
               !.joins = js, !.sorting = ss] :
             e \in BOOLEAN, ts \in {{"users"}, Tables}, cs \in ColumnChoices,
             ops \in OperationChoices, p \in BOOLEAN, js \in JoinChoices,
             ss \in SortingChoices }
    \cup { [EnabledWhitelist EXCEPT !.maxQueryLength = n] : n \in {0, 20} }
    \cup { [EnabledWhitelist EXCEPT !.maxResultRows = n] : n \in {0, 1} }

\* the queries a caller passes
Queries ==
    {NotAString, RawString(<<>>), RawString(<<"SELECT", "*", "FROM", "SECRETS">>)}
    \cup { RawString(<<"select", "*", "from", t>>) : t \in Tables }
    \cup { RawString(<<"select", t, ".", c, "from", t>>) :
             t \in Tables, c \in Columns }
    \cup { RawString(<<"select", "*", "from", t, ",", u>>) :
             t \in Tables, u \in Tables }
    \cup { RawString(<<"select", "*", "from", t>> \o j \o <<u>>) :
             t \in Tables, u \in Tables,
             j \in {<<"inner", "join">>, <<"left", "join">>, <<"join">>} }
    \cup { RawString(<<"select", "*", "from", t, "order", "by", c>>) :
             t \in Tables, c \in Columns }
    \cup { RawString(<<"select", "*", "from", t, "order", "by", t, ".", c>>) :
             t \in Tables, c \in Columns }
    \cup { RawString(<<"select", "*", "from", t, "order", "by",
                       t, ".", "id", ",", t, ".", "pw">>) : t \in Tables }
    \cup { RawString(<<"select", "*", "from", t, "where", "id", "=", l>>) :
             t \in Tables, l \in Literals \cup {"?"} }
    \cup { RawString(<<"insert", "into", t, "(", c, ")",
                       "values", "(", "?", ")">>) :
             t \in Tables, c \in Columns }
    \cup { RawString(<<"insert", "into", t, "(", "id", ",", "pw", ")",
                       "values", "(", "?", ",", "?", ")">>) : t \in Tables }
    \cup { RawString(<<"update", t, "set", c, "=", "?">>) :
             t \in Tables, c \in Columns }
    \cup { RawString(<<"update", t, "set", "id", "=", "?", ",",
                       "pw", "=", "?">>) : t \in Tables }
    \cup { RawString(<<"delete", "from", t>>) : t \in Tables }
    \cup { RawString(<<"drop", "table", t>>) : t \in Tables }
    \cup { RawString(<<"select", "*", "from", t, ";", "delete", "from", t>>) :
             t \in Tables }
    \cup { RawString(<<"select", "*", "from", t, ";",
                       "update", t, "set", "id", "=", "?">>) : t \in Tables }
ValuesInputs == {ValuesArray(0), ValuesArray(1), ValuesNoArray}

\* queryRaw up to the try block: a check throws, or the query is handed to
\* prisma.$queryRaw
Validate ==
    /\ rpc = "called"
    /\ LET error == QueryRawError(queryWhitelist, rawQuery, rawValues)
       IN  IF IsErr(error)
           THEN /\ rpc' = "done"
                /\ rawOutcome' = RawRaises(error)
                /\ storeLog' = storeLog
           ELSE /\ rpc' = "executing"
                /\ rawOutcome' = rawOutcome
                /\ storeLog' = Append(storeLog, rawQuery)
    /\ UNCHANGED <<queryWhitelist, rawQuery, rawValues, storeFailure, notRaw>>

\* the store answers with an array of n rows
StoreReturnsRows ==
    /\ rpc = "executing"
    /\ \E n \in 0..MaxRows :
           rawOutcome' = RawReturns(SliceRows(queryWhitelist, n))
    /\ rpc' = "done"
    /\ UNCHANGED <<queryWhitelist, rawQuery, rawValues, storeLog, storeFailure,
                   notRaw>>

\* what the try block can throw: an error of the client or the store, with
\* its code and message, or new Error("Unexpected result type")
StoreFailure(code, message) == [code |-> code, message |-> message]
NoStoreFailure == StoreFailure("none", "")
StoreFailures ==
    { StoreFailure("P2010", "relation does not exist"),
      StoreFailure("P2010", "syntax error"),
      StoreFailure("P1001", "syntax error"),
      StoreFailure("none", "Unexpected result type") }

\* a catch block that passes the message on
SurfacedError_Leaks(failure) == Err("queryFailed", failure.message)

\* the catch block: throw new Error("Database query failed")
SurfacedError(failure) == Err("queryFailed", "")

\* the try block throws: the client or the store failed, or the result is
\* no array; the error is logged and the caller sees one opaque error
StoreFails ==
    /\ rpc = "executing"
    /\ \E f \in StoreFailures :
          /\ storeFailure' = f
          /\ rawOutcome' = RawRaises(SurfacedError(f))
    /\ rpc' = "done"
    /\ UNCHANGED <<queryWhitelist, rawQuery, rawValues, storeLog, notRaw>>

(***************************************************************************)
(* BaseController._processNestedFields: the version with a depth budget    *)
(* (src/unnamed/part_004) and the earlier version without one              *)
(* (src/unnamed/part_005, also src/src/core/controllers/BaseController.ts).*)
(***************************************************************************)
\* payloads hold at most this many relation hops
MaxHops == 3

\* model.relationFields
Relations == {"author"}
\* _isValidRelation(fieldPath): the part of the path before the first "."
\* is a relation of the model
FirstSegment(fieldPath) ==
    IF fieldPath = "author.name" THEN "author" ELSE fieldPath
IsValidRelation(fieldPath) == FirstSegment(fieldPath) \in Relations

\* value == null
IsNullish(n) == n.t \in {"null", "undef"}
\* typeof value === "object" && !Array.isArray(value), for a value that is
\* not null
IsPlainObject(n) == n.t = "obj"

\* maxDepth: this.securityConfig.maximumNestedDepth || 1
MaxDepthOf(cfg) ==
    IF cfg.maximumNestedDepth = 0 THEN 1 ELSE cfg.maximumNestedDepth

\* the budget that is never used up
DepthExhausted_Never(currentDepth, maxDepth) == FALSE

\* line 492: currentDepth >= maxDepth
DepthExhausted(currentDepth, maxDepth) == currentDepth >= maxDepth

\* the sub-keys whose presence makes a relation value explicit
ExplicitUpdateKeys == <<"create", "connect", "disconnect", "update", "delete">>
NoneTruthy(value, keys) ==
    \A i \in 1..Len(keys) : ~Truthy(Get(value, keys[i]))

\* kids with <<k, v>> appended when the condition holds
AddIf(cond, kids, k, v) == IF cond THEN Append(kids, <<k, v>>) ELSE kids

\* the implicit update of the earlier version, without its test that the
\* object has keys
ImplicitUpdateFlat_AnyObject(value) ==
    NoneTruthy(value, ExplicitUpdateKeys)

\* part_005 lines 324-331: the test for the implicit update syntax
ImplicitUpdateFlat(value) ==
    NoneTruthy(value, ExplicitUpdateKeys) /\ Len(Spread(value)) > 0

\* the implicit create that leaves the payload unwrapped
ImplicitCreate_Unwrapped(translated) == translated

\* lines 553-563: the node of the implicit create syntax
ImplicitCreate(translated) == Obj1("create", translated)

RECURSIVE ProcessNestedFields(_, _, _, _), ProcessEntriesFrom(_, _, _, _, _, _)
\* _processNestedFields(data, isUpdate, currentDepth, maxDepth) of part_004
ProcessNestedFields(data, isUpdate, currentDepth, maxDepth) ==
    IF DepthExhausted(currentDepth, maxDepth) THEN Obj(<<>>)
    ELSE Obj(ProcessEntriesFrom(Spread(data), 1, isUpdate, currentDepth,
                                maxDepth, <<>>))

\* the loop over Object.entries(data), from the i-th entry on; nestedData
\* holds what the earlier entries put into it
ProcessEntriesFrom(entries, i, isUpdate, currentDepth, maxDepth, nestedData) ==
    IF i > Len(entries) THEN nestedData
    ELSE LET field == entries[i][1]
             value == entries[i][2]
             Sub(v, upd) == ProcessNestedFields(v, upd, currentDepth + 1,
                                                maxDepth)
             updateNode ==
                LET k1 == AddIf(Truthy(Get(value, "create")), <<>>,
                                "create", Sub(Get(value, "create"), FALSE))
                    k2 == AddIf(Truthy(Get(value, "connect")), k1,
                                "connect", Get(value, "connect"))
                    k3 == AddIf(Truthy(Get(value, "disconnect")), k2,
                                "disconnect", Get(value, "disconnect"))
                    k4 == AddIf(Truthy(Get(value, "delete")), k3,
                                "delete", Get(value, "delete"))
                    k5 == AddIf(Truthy(Get(value, "update")), k4,
                                "update", Sub(Get(value, "update"), TRUE))
                IN  IF NoneTruthy(value, ExplicitUpdateKeys)
                    THEN Obj(SetKey(k5, "update", Sub(value, TRUE)))
                    ELSE Obj(k5)
             createNode ==
                IF Truthy(Get(value, "create")) \/ Truthy(Get(value, "connect"))
                THEN Obj(AddIf(Truthy(Get(value, "connect")),
                               AddIf(Truthy(Get(value, "create")), <<>>,
                                     "create", Sub(Get(value, "create"), FALSE)),
                               "connect", Get(value, "connect")))
                ELSE ImplicitCreate(Sub(value, FALSE))
             next ==
                IF IsNullish(value) THEN nestedData
                ELSE IF IsValidRelation(field) /\ IsPlainObject(value)
                THEN SetKey(nestedData, field,
                            IF isUpdate THEN updateNode ELSE createNode)
                ELSE IF currentDepth > 0 /\ IsPlainObject(value)
                THEN SetKey(nestedData, field, Sub(value, isUpdate))
                ELSE SetKey(nestedData, field, value)
         IN  ProcessEntriesFrom(entries, i + 1, isUpdate, currentDepth,
                                maxDepth, next)

\* _processNestedFields(data, isUpdate) of part_005: only the relation
\* fields are kept, and their payloads are copied as they are
RECURSIVE ProcessFlatFrom(_, _, _, _)
ProcessFlatFrom(entries, i, isUpdate, nestedData) ==
    IF i > Len(entries) THEN nestedData
    ELSE LET field == entries[i][1]
             value == entries[i][2]
             updateNode ==
                LET k1 == AddIf(Truthy(Get(value, "create")), <<>>,
                                "create", Get(value, "create"))
                    k2 == AddIf(Truthy(Get(value, "connect")), k1,
                                "connect", Get(value, "connect"))
                    k3 == AddIf(Truthy(Get(value, "disconnect")), k2,
                                "disconnect", Get(value, "disconnect"))
                    k4 == AddIf(Truthy(Get(value, "delete")), k3,
                                "delete", Get(value, "delete"))
                    k5 == AddIf(Truthy(Get(value, "update")), k4,
                                "update", Get(value, "update"))
                IN  IF ImplicitUpdateFlat(value)
                    THEN Obj(SetKey(k5, "update", value))
                    ELSE Obj(k5)
             createNode ==
                IF Truthy(Get(value, "create")) \/ Truthy(Get(value, "connect"))
                THEN Obj(AddIf(Truthy(Get(value, "connect")),
                               AddIf(Truthy(Get(value, "create")), <<>>,
                                     "create", Get(value, "create")),
                               "connect", Get(value, "connect")))
                ELSE Obj1("create", value)
             next ==
                IF ~IsValidRelation(field) \/ IsNullish(value) THEN nestedData
                ELSE SetKey(nestedData, field,
                            IF isUpdate THEN updateNode ELSE createNode)
         IN  ProcessFlatFrom(entries, i + 1, isUpdate, next)

ProcessNestedFieldsFlat(data, isUpdate) ==
    Obj(ProcessFlatFrom(Spread(data), 1, isUpdate, <<>>))

\* the request bodies: the fields of an entity, and under a relation field
\* the payload of the related entity in each syntax
Scalars == <<<<"name", Prim>>>>
EntityFields ==
    { <<>>, Scalars,
      Scalars \o <<<<"meta", Obj1("x", Prim)>>>>,
      Scalars \o <<<<"tags", Arr1(Prim)>>>>,
      <<<<"note", Null>>>> }
UniqueWhere == Obj1("id", Prim)
RelationValues(S) ==
    S
    \cup {Obj1("create", e) : e \in S}
    \cup {Obj1("update", e) : e \in S}
    \cup {Obj(<<<<"create", e>>, <<"connect", UniqueWhere>>>>) : e \in S}
    \cup {Obj1("connect", UniqueWhere), Obj1("disconnect", Prim)}
RECURSIVE Payloads(_)
\* the payloads with at most n relation hops
Payloads(n) ==
    IF n = 0 THEN {Obj(f) : f \in EntityFields}
    ELSE {Obj(f) : f \in EntityFields}
         \cup {Obj(Scalars \o <<<<"author", v>>>>) :
                 v \in RelationValues(Payloads(n - 1))}
NestedDepths == {0, 1, 2}

\* the handler translates the request body
Translate ==
    /\ npc = "called"
    /\ writeTree' =
          IF nvariant = "depth"
          THEN ProcessNestedFields(payload, updateMode, 0,
                                   MaxDepthOf(securityConfig))
          ELSE ProcessNestedFieldsFlat(payload, updateMode)
    /\ npc' = "done"
    /\ UNCHANGED <<nvariant, payload, updateMode, notNested>>

(***************************************************************************)
(* BaseController.bulkCreate (src/unnamed/part_004).                       *)
(*                                                                         *)
(* The handler checks the shape of the body, validates every item against  *)
(* the model schema, translates them, and creates them, one create per     *)
(* item, inside one call of runInTransaction with maxRetries 3.  What an   *)
(* item holds plays no part here: an item is an object or not, and passes  *)
(* the schema or not.  A batch that is not empty has BatchSize items, one  *)
(* for each write of the unit of work.                                     *)
(***************************************************************************)
BatchSize == NumWrites
BulkMaxRetries == 3

Item(isObject, schemaOk) == [isObject |-> isObject, schemaOk |-> schemaOk]
Items == {Item(TRUE, TRUE), Item(TRUE, FALSE), Item(FALSE, FALSE)}
Body(isArray, items) == [isArray |-> isArray, items |-> items]
NoBody == Body(FALSE, <<>>)
Bodies ==
    {NoBody, Body(TRUE, <<>>)}
    \cup {Body(TRUE, s) : s \in [1..BatchSize -> Items]}

NoBulkResponse == [kind |-> "none", status |-> 0, count |-> 0, err |-> NoError]
\* res.status(400).json({error: ...})
BadRequest == [kind |-> "json", status |-> 400, count |-> 0, err |-> NoError]
\* res.status(201).json(response), count: createdItems.length
Created(n) == [kind |-> "json", status |-> 201, count |-> n, err |-> NoError]
\* next(error)
BulkNext(err) == [kind |-> "next", status |-> 0, count |-> 0, err |-> err]
\* the error validateWithZod throws for an item outside the schema
SchemaError == Error("none", "schema", 0)

\* !item || typeof item !== "object" || Array.isArray(item)
InvalidItems(items) == {i \in 1..Len(items) : ~items[i].isObject}

\* the synchronous head of the handler: the three checks of the body
BulkCheckBody ==
    /\ bpc = "received"
    /\ IF ~body.isArray \/ Len(body.items) = 0
          \/ InvalidItems(body.items) # {}
       THEN bulkResponse' = BadRequest /\ bpc' = "done"
       ELSE bulkResponse' = bulkResponse /\ bpc' = "validating"
    /\ UNCHANGED <<body, tvars, notBulk>>

\* Promise.all over the schema validations settles: a rejection goes to
\* next(error); otherwise the items are translated and runInTransaction is
\* called with the creates as the unit of work
BulkValidateItems ==
    /\ bpc = "validating"
    /\ IF \E i \in 1..Len(body.items) : ~body.items[i].schemaOk
       THEN /\ bulkResponse' = BulkNext(SchemaError)
            /\ bpc' = "done"
            /\ UNCHANGED tvars
       ELSE /\ bpc' = "transaction"
            /\ \E v \in {"base", "models"} : variant' = v
            /\ \E s \in [1..MaxRetriesBound -> UowBehaviours] : script' = s
            /\ maxRetries' = BulkMaxRetries
            /\ tpc' = "loop"
            /\ UNCHANGED <<retry, attempts, staged, committed, waits,
                           lastError, txOutcome, inflight, lateOps,
                           bulkResponse>>
    /\ UNCHANGED <<body, notBulk>>

\* runInTransaction has settled: 201 with the created items, or next(error)
BulkResponds ==
    /\ bpc = "transaction" /\ tpc \in {"returned", "raised"}
    /\ bulkResponse' = IF tpc = "returned" THEN Created(Len(body.items))
                       ELSE BulkNext(txOutcome.err)
    /\ bpc' = "done"
    /\ UNCHANGED <<body, tvars, notBulk>>

(***************************************************************************)
(* BaseController.bulkCreate with per-item results (src/unnamed/part_006). *)
(*                                                                         *)
(* This version issues one create per item on the model client, outside    *)
(* any transaction, waits for all of them with Promise.allSettled and      *)
(* reports the fulfilled and the rejected ones.  An item is named, so that *)
(* two items of a batch may or may not be alike; an entry of the failures  *)
(* list keeps the index it read items[] at next to the item it read.       *)
(***************************************************************************)
MaxItems == 3
ItemNames == {"a", "b"}

NamedItem(name, isObject, schemaOk) ==
    [name |-> name, isObject |-> isObject, schemaOk |-> schemaOk]
NamedItems ==
    {NamedItem(n, TRUE, TRUE) : n \in ItemNames}
    \cup {NamedItem("a", TRUE, FALSE), NamedItem("a", FALSE, FALSE)}
SubmittedBodies ==
    {Body(FALSE, <<>>), Body(TRUE, <<>>)}
    \cup UNION {{Body(TRUE, s) : s \in [1..n -> NamedItems]} : n \in 1..MaxItems}

\* the states of a promise under Promise.allSettled; a rejection carries the
\* message of its reason, which may be empty
Unsettled == [status |-> "pending", message |-> ""]
Fulfilled == [status |-> "fulfilled", message |-> ""]
Rejected(message) == [status |-> "rejected", message |-> message]
Settlements == {Fulfilled, Rejected("store"), Rejected("")}

NoPartialResponse ==
    [kind |-> "none", status |-> 0, createdCount |-> 0, failedCount |-> 0,
     createdItems |-> <<>>, failures |-> <<>>]
PartialBadRequest == [NoPartialResponse EXCEPT !.kind = "json", !.status = 400]
PartialNext == [NoPartialResponse EXCEPT !.kind = "next"]

\* array.filter(pred): the indices of the elements kept, in order
RECURSIVE FilterIndices(_, _, _)
FilterIndices(results, status, i) ==
    IF i > Len(results) THEN <<>>
    ELSE IF results[i].status = status
         THEN <<i>> \o FilterIndices(results, status, i + 1)
         ELSE FilterIndices(results, status, i + 1)

\* result.reason.message || "Creation failed"
FailureMessage(result) ==
    IF result.message = "" THEN "Creation failed" ELSE result.message

\* creationResults.filter(rejected).map((result, index) => ({originalData:
\* items[index], error: ...})): index counts the rejected results
FailedCreations(items, results) ==
    LET rejected == FilterIndices(results, "rejected", 1)
    IN  [k \in 1..Len(rejected) |->
            [originalIndex |-> k,
             originalData  |-> items[k],
             create        |-> rejected[k],
             error         |-> FailureMessage(results[rejected[k]])]]

\* the response built from the settled creates: 207 with the failures when
\* there are any, 201 otherwise
PartialResponse(items, results) ==
    LET successfulCreations == FilterIndices(results, "fulfilled", 1)
        failedCreations     == FailedCreations(items, results)
    IN  [kind         |-> "json",
         status       |-> IF Len(failedCreations) > 0 THEN 207 ELSE 201,
         createdCount |-> Len(successfulCreations),
         failedCount  |-> Len(failedCreations),
         createdItems |-> successfulCreations,
         failures     |-> failedCreations]

\* the synchronous head of the handler: the three checks of the body
PartialCheckBody ==
    /\ ppc = "received"
    /\ IF ~submitted.isArray \/ Len(submitted.items) = 0
          \/ InvalidItems(submitted.items) # {}
       THEN partialResponse' = PartialBadRequest /\ ppc' = "done"
       ELSE partialResponse' = partialResponse /\ ppc' = "validating"
    /\ UNCHANGED <<submitted, creationResults, notPartial>>

\* Promise.all over the schema validations settles: a rejection goes to
\* next(error); otherwise the items are translated and one create per item
\* is issued on the model client
PartialValidateItems ==
    /\ ppc = "validating"
    /\ IF \E i \in 1..Len(submitted.items) : ~submitted.items[i].schemaOk
       THEN /\ partialResponse' = PartialNext
            /\ ppc' = "done"
            /\ UNCHANGED creationResults
       ELSE /\ ppc' = "creating"
            /\ creationResults' = [i \in 1..Len(submitted.items) |-> Unsettled]
            /\ UNCHANGED partialResponse
    /\ UNCHANGED <<submitted, notPartial>>

\* one of the creates settles
CreateSettles ==
    /\ ppc = "creating"
    /\ \E i \in 1..Len(creationResults), r \in Settlements :
          /\ creationResults[i] = Unsettled
          /\ creationResults' = [creationResults EXCEPT ![i] = r]
    /\ UNCHANGED <<submitted, ppc, partialResponse, notPartial>>

\* Promise.allSettled resolves and the handler answers
PartialResponds ==
    /\ ppc = "creating"
    /\ \A i \in 1..Len(creationResults) : creationResults[i] # Unsettled
    /\ partialResponse' = PartialResponse(submitted.items, creationResults)
    /\ ppc' = "done"
    /\ UNCHANGED <<submitted, creationResults, notPartial>>

IdlePartial ==
    /\ submitted = NoBody
    /\ ppc = "idle"
    /\ creationResults = <<>>
    /\ partialResponse = NoPartialResponse

(***************************************************************************)
(* errorHandler (src/src/core/middlewares/errorHandler.ts), the middleware *)
(* that answers the request when a handler has called next(error).         *)
(***************************************************************************)
\* what errorHandler reads of an error: whether its message starts with "["
\* and parses as JSON, its code, its name and its statusCode (0: it has none)
ErrorObject(bracket, parses, code, name, statusCode, message) ==
    [bracket |-> bracket, parses |-> parses, code |-> code, name |-> name,
     statusCode |-> statusCode, message |-> message]
\* new Error(message), with a message that does not start with "["
PlainError(message) == ErrorObject(FALSE, FALSE, "none", "Error", 0, message)

\* the error objects behind the errors of the model: every rejection of the
\* query translator is a new Error(message); what the store client rejects
\* with is one of the client's errors
ErrorObjectsOf(err) ==
    IF err.kind = "store"
    THEN { PlainError("store"),
           ErrorObject(FALSE, FALSE, "P2002", "PrismaClientKnownRequestError",
                       0, "store"),
           ErrorObject(FALSE, FALSE, "none", "PrismaClientValidationError",
                       0, "store"),
           ErrorObject(TRUE, TRUE, "none", "Error", 0, "[..]"),
           ErrorObject(TRUE, FALSE, "none", "Error", 0, "[.."),
           ErrorObject(FALSE, FALSE, "none", "Error", 404, "store") }
    ELSE { PlainError(err.kind) }

NoErrorResponse == [status |-> 0, error |-> ""]
ErrorResponse(status, error) == [status |-> status, error |-> error]

\* errorHandler: the branches in order
ErrorHandler(o) ==
    IF o.bracket /\ o.parses THEN ErrorResponse(400, "Validation failed")
    ELSE IF o.code = "P2002" THEN ErrorResponse(409, "Duplicate field")
    ELSE IF o.name = "PrismaClientValidationError"
    THEN ErrorResponse(400, "Validation failed")
    ELSE LET statusCode == IF o.statusCode # 0 THEN o.statusCode ELSE 500
         IN  ErrorResponse(statusCode,
                           IF statusCode = 500 THEN "Internal Server Error"
                           ELSE o.message)

\* express hands the error getAll passed to next to errorHandler
HandleError ==
    /\ gpc = "done" /\ response.kind = "next"
    /\ errorResponse = NoErrorResponse
    /\ \E o \in ErrorObjectsOf(response.err) :
          errorResponse' = ErrorHandler(o)
    /\ UNCHANGED notHandler

IdleHandler == errorResponse = NoErrorResponse

(***************************************************************************)
(* BaseController.create and update (src/unnamed/part_004, and the earlier *)
(* src/unnamed/part_005 with the translator without a depth budget).       *)
(*                                                                         *)
(* The handler validates req.body against the model's schema, translates   *)
(* req.body with _processNestedFields and sends the two spread into one    *)
(* object to the store.  The schema is the model's own; the one here has a *)
(* field that is kept as sent (name), one that is coerced from a string to *)
(* a number (age), one with a default (role), and strips the keys it does  *)
(* not declare (isAdmin), as a zod object does.                            *)
(***************************************************************************)
\* schema.safeParse(data).data for a body the schema accepts
RECURSIVE SchemaParseFrom(_, _, _)
SchemaParseFrom(entries, i, data) ==
    IF i > Len(entries) THEN data
    ELSE LET field == entries[i][1]
             value == entries[i][2]
             next ==
                CASE field = "name" -> Append(data, <<field, value>>)
                  [] field = "age"  -> Append(data, <<field, Prim>>)
                  [] field = "role" -> SetKey(data, field, value)
                  [] OTHER -> data
         IN  SchemaParseFrom(entries, i + 1, next)
SchemaParse(data, isUpdate) ==
    LET defaults == IF isUpdate \/ HasKey(data, "role") THEN <<>>
                    ELSE <<<<"role", Prim>>>>
    IN  Obj(SchemaParseFrom(Spread(data), 1, <<>>) \o defaults)
\* the schema rejects a name that is not a string
SchemaAccepts(data) == Get(data, "name").t \in {"str", "undef"}

\* { ...a, ...b }
RECURSIVE SpreadInto(_, _, _)
SpreadInto(kids, entries, i) ==
    IF i > Len(entries) THEN kids
    ELSE SpreadInto(SetKey(kids, entries[i][1], entries[i][2]), entries, i + 1)
SpreadBoth(a, b) == Obj(SpreadInto(Spread(a), Spread(b), 1))

\* the data the handler sends: { ...validatedData, ...nestedData }, with
\* nestedData translated from req.body
WriteData(v, cfg, data, isUpdate) ==
    SpreadBoth(SchemaParse(data, isUpdate),
               IF v = "depth"
               THEN ProcessNestedFields(data, isUpdate, 0, MaxDepthOf(cfg))
               ELSE ProcessNestedFieldsFlat(data, isUpdate))

\* the request bodies: the scalar fields, each absent or sent, and the
\* relation field in each syntax
ScalarChoices ==
    { <<>>, <<<<"name", StrNode>>>>, <<<<"name", Prim>>>>,
      <<<<"name", StrNode>>, <<"age", StrNode>>>>,
      <<<<"name", StrNode>>, <<"role", Prim>>>>,
      <<<<"name", StrNode>>, <<"isAdmin", Prim>>>>,
      <<<<"age", StrNode>>, <<"isAdmin", Prim>>>> }
WriteBodies ==
    {Obj(s) : s \in ScalarChoices}
    \cup {Obj(s \o <<<<"author", v>>>>) :
            s \in ScalarChoices, v \in RelationValues(Payloads(0))}

NoWriteResponse == [kind |-> "none", status |-> 0]
WriteJson(status) == [kind |-> "json", status |-> status]
WriteNext == [kind |-> "next", status |-> 0]

\* the handler up to the store call: a schema failure goes to next(error),
\* otherwise create or update is called on the model client
WriteRequest ==
    /\ wpc = "received"
    /\ IF SchemaAccepts(wbody)
       THEN /\ storeData' = WriteData(nvariant, securityConfig, wbody, wmode)
            /\ wpc' = "awaiting"
            /\ UNCHANGED wresponse
       ELSE /\ wresponse' = WriteNext
            /\ wpc' = "done"
            /\ UNCHANGED storeData
    /\ UNCHANGED <<wbody, wmode, notWrite>>

\* the store call resolves: 201 for create, 200 for update, and next(new
\* Error("Not found")) for an update that resolves with nothing
WriteResolves ==
    /\ wpc = "awaiting"
    /\ \E found \in BOOLEAN :
          wresponse' = IF wmode /\ ~found THEN WriteNext
                       ELSE WriteJson(IF wmode THEN 200 ELSE 201)
    /\ wpc' = "done"
    /\ UNCHANGED <<wbody, wmode, storeData, notWrite>>

\* the store call rejects: next(error)
WriteRejects ==
    /\ wpc = "awaiting"
    /\ wresponse' = WriteNext
    /\ wpc' = "done"
    /\ UNCHANGED <<wbody, wmode, storeData, notWrite>>

IdleWrite ==
    /\ wbody = Obj(<<>>)
    /\ wmode = FALSE
    /\ wpc = "idle"
    /\ storeData = Undef
    /\ wresponse = NoWriteResponse

(***************************************************************************)
(* softDelete and restore (part_004): each handler reads the row with      *)
(* findUnique, decides on what it read, and then writes deletedAt with a   *)
(* separate update call.  Several requests for the same id are served      *)
(* concurrently: every await is a point where another handler may run.     *)
(* The store is taken to answer every call.                                *)
(***************************************************************************)
NumRequests == 2
MaxTicks == 2
Handlers == 1..NumRequests

\* the value of deletedAt: null or a timestamp
NullDate == [set |-> FALSE, at |-> 0]
DateAt(t) == [set |-> TRUE, at |-> t]
\* what findUnique resolves with: null or the row
NoItem == [found |-> FALSE, deletedAt |-> NullDate]
StoredRow(d) == [found |-> TRUE, deletedAt |-> d]

NoSoftResponse == [kind |-> "none", status |-> 0, message |-> ""]
SoftJson(status) == [kind |-> "json", status |-> status, message |-> ""]
SoftNext(message) == [kind |-> "next", status |-> 0, message |-> message]

\* softDelete up to its first await: the support check, then findUnique
\* resolves with the row as it is now
SoftDeleteReads(h) ==
    /\ handlerOp[h] = "softDelete"
    /\ handlerPc[h] = "received"
    /\ IF ~securityConfig.hasSoftDelete
       THEN /\ softResponse' = [softResponse EXCEPT ![h] =
                  SoftNext("Soft delete is not supported for this model")]
            /\ handlerPc' = [handlerPc EXCEPT ![h] = "done"]
            /\ UNCHANGED existingItem
       ELSE /\ existingItem' = [existingItem EXCEPT ![h] = storedItem]
            /\ handlerPc' = [handlerPc EXCEPT ![h] = "read"]
            /\ UNCHANGED softResponse
    /\ UNCHANGED <<handlerOp, storedItem, storeClock, notSoft>>

\* softDelete after findUnique: the test on existingItem, then the update
\* of deletedAt to new Date() and the 200 response
SoftDeleteWrites(h) ==
    /\ handlerOp[h] = "softDelete"
    /\ handlerPc[h] = "read"
    /\ IF ~existingItem[h].found \/ existingItem[h].deletedAt.set
       THEN /\ softResponse' = [softResponse EXCEPT ![h] =
                  SoftNext("Not found or already deleted")]
            /\ UNCHANGED storedItem
       ELSE /\ storedItem' = StoredRow(DateAt(storeClock))
            /\ softResponse' = [softResponse EXCEPT ![h] = SoftJson(200)]
    /\ handlerPc' = [handlerPc EXCEPT ![h] = "done"]
    /\ UNCHANGED <<handlerOp, existingItem, storeClock, notSoft>>

\* restore up to its first await
RestoreReads(h) ==
    /\ handlerOp[h] = "restore"
    /\ handlerPc[h] = "received"
    /\ IF ~securityConfig.hasSoftDelete
       THEN /\ softResponse' = [softResponse EXCEPT ![h] =
                  SoftNext("Restore is not supported for this model")]
            /\ handlerPc' = [handlerPc EXCEPT ![h] = "done"]
            /\ UNCHANGED existingItem
       ELSE /\ existingItem' = [existingItem EXCEPT ![h] = storedItem]
            /\ handlerPc' = [handlerPc EXCEPT ![h] = "read"]
            /\ UNCHANGED softResponse
    /\ UNCHANGED <<handlerOp, storedItem, storeClock, notSoft>>

\* restore after findUnique: the test on existingItem, then the update of
\* deletedAt to null and the 200 response
RestoreWrites(h) ==
    /\ handlerOp[h] = "restore"
    /\ handlerPc[h] = "read"
    /\ IF ~existingItem[h].found \/ ~existingItem[h].deletedAt.set
       THEN /\ softResponse' = [softResponse EXCEPT ![h] =
                  SoftNext("Not found or not deleted")]
            /\ UNCHANGED storedItem
       ELSE /\ storedItem' = StoredRow(NullDate)
            /\ softResponse' = [softResponse EXCEPT ![h] = SoftJson(200)]
    /\ handlerPc' = [handlerPc EXCEPT ![h] = "done"]
    /\ UNCHANGED <<handlerOp, existingItem, storeClock, notSoft>>

\* time passes between two steps
ClockTicks ==
    /\ storeClock < MaxTicks
    /\ \E h \in Handlers : handlerPc[h] # "done"
    /\ storeClock' = storeClock + 1
    /\ UNCHANGED <<handlerOp, handlerPc, existingItem, softResponse,
                   storedItem, notSoft>>

IdleSoft ==
    /\ handlerOp = <<>>
    /\ handlerPc = <<>>
    /\ existingItem = <<>>
    /\ softResponse = <<>>
    /\ storedItem = NoItem
    /\ storeClock = 0

(***************************************************************************)
(* The specifications, one per component.                                  *)
(***************************************************************************)
IdleBulk ==
    /\ body = NoBody
    /\ bpc = "idle"
    /\ bulkResponse = NoBulkResponse

IdleQ ==
    /\ ctorConfig = NoConfig
    /\ securityConfig = DEFAULT_SECURITY_CONFIG
    /\ req = EmptyReq
    /\ qpc = "idle"
    /\ qresult = NoResult

IdleTx ==
    /\ variant = "base"
    /\ maxRetries = 0
    /\ script = <<>>
    /\ tpc = "idle"
    /\ retry = 0
    /\ attempts = 0
    /\ staged = 0
    /\ committed = {}
    /\ waits = <<>>
    /\ lastError = NoError
    /\ txOutcome = Pending
    /\ inflight = {}
    /\ lateOps = 0

IdleDirect ==
    /\ directParams = NoPlan
    /\ verdict = NoVerdict

IdleGetAll ==
    /\ gpc = "idle"
    /\ clientCalls = <<>>
    /\ unsettled = {}
    /\ response = NoResponse

IdleNested ==
    /\ nvariant = "depth"
    /\ payload = Obj(<<>>)
    /\ updateMode = FALSE
    /\ npc = "idle"
    /\ writeTree = Obj(<<>>)

IdleRaw ==
    /\ queryWhitelist = DefaultQueryWhitelist
    /\ rawQuery = NotAString
    /\ rawValues = ValuesArray(0)
    /\ rpc = "idle"
    /\ rawOutcome = RawPending
    /\ storeLog = <<>>
    /\ storeFailure = NoStoreFailure

\* a controller is constructed and a request arrives
InitQ ==
    /\ \E c \in Configs : ctorConfig = c /\ securityConfig = Construct(c)
    /\ req = EmptyReq
    /\ qpc = "request"
    /\ qresult = NoResult
    /\ IdleTx
    /\ IdleRaw
    /\ IdleDirect
    /\ IdleGetAll
    /\ IdleNested
    /\ IdleBulk
    /\ IdlePartial
    /\ IdleHandler
    /\ IdleWrite
    /\ IdleSoft

NextQ ==
    \/ SetFilter \/ SetInclude \/ SetSort \/ SetFields \/ SetPage
    \/ SetLimit \/ SetWithDeleted \/ AddSimpleFilter \/ Parse

SpecQ == InitQ /\ [][NextQ]_vars

\* runInTransaction(fn, options) is called: the options are destructured
\* with their defaults, and fn behaves as the script says
InitTx ==
    /\ variant \in {"base", "models"}
    /\ maxRetries \in (0..MaxRetriesBound) \cup {DefaultMaxRetries}
    /\ script \in [1..MaxRetriesBound -> UowBehaviours]
    /\ tpc = "loop"
    /\ retry = 0
    /\ attempts = 0
    /\ staged = 0
    /\ committed = {}
    /\ waits = <<>>
    /\ lastError = NoError
    /\ txOutcome = Pending
    /\ inflight = {}
    /\ lateOps = 0
    /\ IdleQ
    /\ IdleRaw
    /\ IdleDirect
    /\ IdleGetAll
    /\ IdleNested
    /\ IdleBulk
    /\ IdlePartial
    /\ IdleHandler
    /\ IdleWrite
    /\ IdleSoft

\* the steps of runInTransaction itself
RunnerNext ==
    \/ BeginAttempt \/ LoopExit \/ UowWrite \/ UowResolves \/ UowRejects
    \/ Timeout \/ BackoffDone

NextTx == RunnerNext \/ LateOperation

SpecTx == InitTx /\ [][NextTx]_vars

\* timers fire and a settled promise is handled: a runner step that stays
\* possible is eventually taken
FairSpecTx == SpecTx /\ WF_vars(RunnerNext)

\* a model class with its whitelist is loaded and queryRaw(query, values)
\* is called
InitRaw ==
    /\ queryWhitelist \in Whitelists
    /\ rawQuery \in Queries
    /\ rawValues \in ValuesInputs
    /\ rpc = "called"
    /\ rawOutcome = RawPending
    /\ storeLog = <<>>
    /\ storeFailure = NoStoreFailure
    /\ IdleQ
    /\ IdleTx
    /\ IdleDirect
    /\ IdleGetAll
    /\ IdleNested
    /\ IdleBulk
    /\ IdlePartial
    /\ IdleHandler
    /\ IdleWrite
    /\ IdleSoft

NextRaw == Validate \/ StoreReturnsRows \/ StoreFails

SpecRaw == InitRaw /\ [][NextRaw]_vars

\* the list endpoint: a request is put together and getAll handles it
NextGetAll ==
    \/ SetFilter \/ SetInclude \/ SetSort \/ SetFields \/ SetPage
    \/ SetLimit \/ SetWithDeleted \/ AddSimpleFilter
    \/ GetAll \/ ClientResolves \/ ClientRejects

SpecGetAll == InitQ /\ [][NextGetAll]_vars

\* a controller is constructed with a nesting budget and a create or update
\* handler hands the request body to _processNestedFields
InitNested ==
    /\ \E c \in {NoConfig}
              \cup { Partial({"maximumNestedDepth"},
                             [DEFAULT_SECURITY_CONFIG EXCEPT
                                  !.maximumNestedDepth = d]) :
                       d \in NestedDepths } :
          ctorConfig = c /\ securityConfig = Construct(c)
    /\ req = EmptyReq
    /\ qpc = "idle"
    /\ qresult = NoResult
    /\ nvariant \in {"depth", "flat"}
    /\ payload \in Payloads(MaxHops)
    /\ updateMode \in BOOLEAN
    /\ npc = "called"
    /\ writeTree = Obj(<<>>)
    /\ IdleBulk
    /\ IdleTx
    /\ IdleRaw
    /\ IdleDirect
    /\ IdleGetAll
    /\ IdlePartial
    /\ IdleHandler
    /\ IdleWrite
    /\ IdleSoft

NextNested == Translate

SpecNested == InitNested /\ [][NextNested]_vars

\* a bulk create request arrives
InitBulk ==
    /\ body \in Bodies
    /\ bpc = "received"
    /\ bulkResponse = NoBulkResponse
    /\ IdleQ
    /\ IdleTx
    /\ IdleRaw
    /\ IdleDirect
    /\ IdleGetAll
    /\ IdleNested
    /\ IdlePartial
    /\ IdleHandler
    /\ IdleWrite
    /\ IdleSoft

\* the handler and the runner it calls; with maxRetries 3 the loop test of
\* the runner never fails, so the exit below the loop is not among the steps
NextBulk ==
    \/ BulkCheckBody \/ BulkValidateItems \/ BulkResponds
    \/ BeginAttempt \/ UowWrite \/ UowResolves \/ UowRejects \/ Timeout
    \/ BackoffDone \/ LateOperation

SpecBulk == InitBulk /\ [][NextBulk]_vars

\* the page sizes of the requests whose limit is followed through the
\* translator and through a direct call of the validator
LimitRequests ==
    { [EmptyReq EXCEPT !.limit = l, !.filter = f, !.page = p] :
        l \in LimitInputs \cup {RawAbsent},
        f \in {Undef, Obj1("email", Prim), Obj1("secret", Prim)},
        p \in PageInputs \cup {RawAbsent} }

\* a controller is constructed and a request with a page size arrives
InitLimit ==
    /\ \E c \in Configs : ctorConfig = c /\ securityConfig = Construct(c)
    /\ req \in LimitRequests
    /\ qpc = "request"
    /\ qresult = NoResult
    /\ IdleTx
    /\ IdleRaw
    /\ IdleDirect
    /\ IdleGetAll
    /\ IdleNested
    /\ IdleBulk
    /\ IdlePartial
    /\ IdleHandler
    /\ IdleWrite
    /\ IdleSoft

NextLimit == Parse \/ ValidateDirectly

SpecLimit == InitLimit /\ [][NextLimit]_vars

\* a bulk create request arrives at the version with per-item results
InitPartial ==
    /\ submitted \in SubmittedBodies
    /\ ppc = "received"
    /\ creationResults = <<>>
    /\ partialResponse = NoPartialResponse
    /\ IdleQ
    /\ IdleTx
    /\ IdleRaw
    /\ IdleDirect
    /\ IdleGetAll
    /\ IdleNested
    /\ IdleBulk
    /\ IdleHandler
    /\ IdleWrite
    /\ IdleSoft

NextPartial ==
    \/ PartialCheckBody \/ PartialValidateItems \/ CreateSettles
    \/ PartialResponds

SpecPartial == InitPartial /\ [][NextPartial]_vars

\* getAll followed by the error middleware
NextHandled == NextGetAll \/ HandleError

SpecHandled == InitQ /\ [][NextHandled]_vars

\* a create or update request arrives at a controller with the default
\* policy
InitWrite ==
    /\ wbody \in WriteBodies
    /\ wmode \in BOOLEAN
    /\ wpc = "received"
    /\ storeData = Undef
    /\ wresponse = NoWriteResponse
    /\ nvariant \in {"depth", "flat"}
    /\ payload = Obj(<<>>)
    /\ updateMode = FALSE
    /\ npc = "idle"
    /\ writeTree = Obj(<<>>)
    /\ IdleQ
    /\ IdleTx
    /\ IdleRaw
    /\ IdleDirect
    /\ IdleGetAll
    /\ IdleBulk
    /\ IdlePartial
    /\ IdleHandler
    /\ IdleSoft

NextWrite == WriteRequest \/ WriteResolves \/ WriteRejects

SpecWrite == InitWrite /\ [][NextWrite]_vars

\* requests for the same id arrive at a controller, with soft delete
\* supported or not; the row is absent, active or already deleted
InitSoft ==
    /\ \E c \in {NoConfig,
                 Partial({"hasSoftDelete"},
                         [DEFAULT_SECURITY_CONFIG
                            EXCEPT !.hasSoftDelete = TRUE])} :
          ctorConfig = c /\ securityConfig = Construct(c)
    /\ req = EmptyReq
    /\ qpc = "idle"
    /\ qresult = NoResult
    /\ handlerOp \in [Handlers -> {"softDelete", "restore"}]
    /\ handlerPc = [h \in Handlers |-> "received"]
    /\ existingItem = [h \in Handlers |-> NoItem]
    /\ softResponse = [h \in Handlers |-> NoSoftResponse]
    /\ storedItem \in {NoItem, StoredRow(NullDate), StoredRow(DateAt(0))}
    /\ storeClock = 1
    /\ IdleTx
    /\ IdleRaw
    /\ IdleDirect
    /\ IdleGetAll
    /\ IdleNested
    /\ IdleBulk
    /\ IdlePartial
    /\ IdleHandler
    /\ IdleWrite

NextSoft ==
    \/ \E h \in Handlers :
          \/ SoftDeleteReads(h)
          \/ SoftDeleteWrites(h)
          \/ RestoreReads(h)
          \/ RestoreWrites(h)
    \/ ClockTicks

SpecSoft == InitSoft /\ [][NextSoft]_vars

(***************************************************************************)
(* The names a query carries, read off the assembled query parameters.     *)
(***************************************************************************)
MaxOf(S) == IF S = {} THEN 0 ELSE CHOOSE x \in S : \A y \in S : y <= x

\* the filter keys of a where object: its own keys and, through AND / OR /
\* NOT, those of the grouped conditions
RECURSIVE FilterKeys(_)
FilterKeys(where) ==
    UNION { LET k == where.kids[i][1]
                v == where.kids[i][2]
            IN IF k \in LogicalKeys
               THEN IF v.t = "arr"
                    THEN UNION {FilterKeys(v.kids[j][2]) :
                                    j \in 1..Len(v.kids)}
                    ELSE FilterKeys(v)
               ELSE {k}
          : i \in 1..Len(where.kids) }

\* the relation names of an include tree, at every level
RECURSIVE IncludeNames(_)
IncludeNames(include) ==
    UNION { {include.kids[i][1]}
                \cup IncludeNames(Get(include.kids[i][2], "include"))
          : i \in 1..Len(include.kids) }

\* the number of nested levels of an include tree
RECURSIVE IncludeDepth(_)
IncludeDepth(include) ==
    IF ~Truthy(include) THEN 0
    ELSE 1 + MaxOf({IncludeDepth(Get(include.kids[i][2], "include")) :
                        i \in 1..Len(include.kids)})

\* the operator keys of a comparison (the cases of the switch on operator)
Operators ==
    {"gt", "gte", "lt", "lte", "equals", "not", "contains", "startsWith",
     "endsWith", "search", "in", "notIn", "mode"}

\* every key below a filter key that is no comparison operator
RECURSIVE NestedNames(_)
NestedNames(val) ==
    UNION { ({val.kids[i][1]} \ Operators) \cup NestedNames(val.kids[i][2])
          : i \in 1..Len(val.kids) }

\* every field name of a where tree, at any nesting level
RECURSIVE WhereNames(_)
WhereNames(where) ==
    UNION { LET k == where.kids[i][1]
                v == where.kids[i][2]
            IN IF k \in LogicalKeys
               THEN IF v.t = "arr"
                    THEN UNION {WhereNames(v.kids[j][2]) :
                                    j \in 1..Len(v.kids)}
                    ELSE WhereNames(v)
               ELSE {k} \cup NestedNames(v)
          : i \in 1..Len(where.kids) }

\* the names of the select and where objects the entries of an include tree
\* carry, at every level
RECURSIVE IncludeEntryNames(_, _)
IncludeEntryNames(include, part) ==
    UNION { LET v == include.kids[i][2]
            IN (IF part = "where" THEN WhereNames(Get(v, part))
                ELSE KeySet(Get(v, part)))
               \cup IncludeEntryNames(Get(v, "include"), part)
          : i \in 1..Len(include.kids) }

\* the where object the caller's own filters make, without the injected
\* soft-delete marker
CallerWhere(r) == Obj(ApplySimpleFilters(r.simple, 1, Spread(r.filter)))

\* the names the caller's query carries that are absent from their
\* allow-list; q is the assembled query
DisallowedFilterKeys(cfg, r) == FilterKeys(CallerWhere(r)) \ cfg.allowedFilters
DisallowedSortKeys(cfg, q) == KeySet(q.orderBy) \ cfg.allowedSortFields
DisallowedSelectKeys(cfg, q) == KeySet(q.select) \ cfg.allowedSelectFields
DisallowedIncludes(cfg, q) ==
    IncludeNames(q.include) \ cfg.allowedIncludeRelations
AnyDisallowed(cfg, r, q) ==
    DisallowedFilterKeys(cfg, r) \cup DisallowedSortKeys(cfg, q)
    \cup DisallowedSelectKeys(cfg, q) \cup DisallowedIncludes(cfg, q)

\* the error names a field that is absent from the allow-list of its kind
NamesOffender(cfg, r, q, e) ==
    \/ e.kind = "filter" /\ e.name \in DisallowedFilterKeys(cfg, r)
    \/ e.kind = "sort" /\ e.name \in DisallowedSortKeys(cfg, q)
    \/ e.kind = "select" /\ e.name \in DisallowedSelectKeys(cfg, q)
    \/ e.kind = "include" /\ e.name \in DisallowedIncludes(cfg, q)

\* the JSON parameters of the request parse
JsonParses(r) == r.filter.t # "invalid" /\ r.include.t # "invalid"

(***************************************************************************)
(* C1: for every request and every security policy, _parseQueryParams      *)
(* rejects with an error naming the offending field if any filter key      *)
(* (top-level or inside AND/OR/NOT groups), sort key, projection field or  *)
(* include relation name is absent from its allow-list, and returns a plan *)
(* if every such name is in its allow-list.  The statement is read for     *)
(* requests whose JSON parameters parse and whose include depth is within  *)
(* the bound.                                                              *)
(***************************************************************************)
C1_RejectsExactlyDisallowed ==
    (qpc = "parsed" /\ JsonParses(req)) =>
        LET q == BuildQueryParams(securityConfig, req)
            inDepth == IncludeDepth(q.include) <= securityConfig.maxIncludeDepth
        IN /\ AnyDisallowed(securityConfig, req, q) # {} =>
                /\ qresult.status = "error"
                /\ inDepth =>
                        NamesOffender(securityConfig, req, q, qresult.err)
           /\ (AnyDisallowed(securityConfig, req, q) = {} /\ inDepth) =>
                qresult.status = "plan"

(***************************************************************************)
(* C2: a controller constructed without any security configuration has    *)
(* empty filter, sort, include and select allow-lists, include depth 1 and *)
(* maximum limit 50, and rejects every request that carries any filter,    *)
(* sort, projection or include name.                                       *)
(***************************************************************************)
C2_DefaultFailClosed ==
    ctorConfig = NoConfig =>
        /\ securityConfig.allowedFilters = {}
        /\ securityConfig.allowedSortFields = {}
        /\ securityConfig.allowedIncludeRelations = {}
        /\ securityConfig.allowedSelectFields = {}
        /\ securityConfig.maxIncludeDepth = 1
        /\ securityConfig.maxLimit = 50
        /\ (qpc = "parsed" /\ JsonParses(req)) =>
                LET q == BuildQueryParams(securityConfig, req)
                    names == FilterKeys(CallerWhere(req)) \cup KeySet(q.orderBy)
                             \cup KeySet(q.select) \cup IncludeNames(q.include)
                IN names # {} => qresult.status = "error"

(***************************************************************************)
(* C3: every plan returned by _parseQueryParams contains no field name     *)
(* outside the corresponding allow-list at any nesting level of its where  *)
(* tree, orderBy, select or include tree, names nested under an allowed    *)
(* filter key and names inside an include entry's own select or where      *)
(* included; the only exempt name is deletedAt.                            *)
(***************************************************************************)
C3_PlanNamesAllowed ==
    qresult.status = "plan" =>
        LET p == qresult.plan
            cfg == securityConfig
        IN /\ WhereNames(p.where) \ {"deletedAt"} \subseteq cfg.allowedFilters
           /\ KeySet(p.orderBy) \subseteq cfg.allowedSortFields
           /\ KeySet(p.select) \subseteq cfg.allowedSelectFields
           /\ IncludeNames(p.include) \subseteq cfg.allowedIncludeRelations
           /\ IncludeEntryNames(p.include, "select")
                \subseteq cfg.allowedSelectFields
           /\ IncludeEntryNames(p.include, "where") \ {"deletedAt"}
                \subseteq cfg.allowedFilters

(***************************************************************************)
(* runInTransaction: what the claims speak of.                             *)
(***************************************************************************)
Settled == tpc \in {"returned", "raised"}

\* the unit of work rejects with a retryable code on its first k starts and
\* resolves on the next, and maxRetries allows that start
FailsThenSucceeds(k) ==
    /\ maxRetries >= k + 1
    /\ \A i \in 1..k :
        script[i].kind = "reject" /\ script[i].code \in RETRYABLE_ERRORS
    /\ script[k + 1].kind = "ok"

\* each backoff wait is twice the one before
WaitsDouble == \A i \in 2..Len(waits) : waits[i] = 2 * waits[i - 1]

\* the attempts some write of which is committed
CommittedAttempts == {w[1] : w \in committed}
WritesOf(a) == {w[2] : w \in {x \in committed : x[1] = a}}

(***************************************************************************)
(* C4: if the unit of work fails with a retryable code exactly K times and *)
(* then succeeds, and maxRetries >= K+1, runInTransaction eventually       *)
(* returns the result after exactly K+1 attempts, and the K backoff waits  *)
(* between the attempts are each twice the previous one.                   *)
(***************************************************************************)
C4_RetriesThenSucceeds ==
    \A k \in 0..(MaxRetriesBound - 1) :
        FailsThenSucceeds(k) =>
            /\ <>(/\ tpc = "returned"
                  /\ txOutcome.kind = "returned" /\ txOutcome.attempt = k + 1
                  /\ attempts = k + 1
                  /\ Len(waits) = k
                  /\ \A i \in 1..k : waits[i] > 0
                  /\ WaitsDouble)
            /\ [](attempts <= k + 1 /\ tpc # "raised")

C4_Witness ==
    /\ tpc = "returned" /\ attempts = 3 /\ Len(waits) = 2
    /\ FailsThenSucceeds(2)

(***************************************************************************)
(* C5: when an attempt loses the race against the timeout and attempts     *)
(* remain, runInTransaction waits the backoff and starts a new attempt:    *)
(* the step that ends such an attempt leads to the backoff, not to the     *)
(* failure.                                                                *)
(***************************************************************************)
C5_TimeoutIsRetried ==
    [][(/\ tpc = "attempt" /\ script[attempts].kind = "hang"
        /\ attempts < maxRetries
        /\ tpc' # "attempt") => tpc' = "backoff"]_vars

(***************************************************************************)
(* C6: if the first attempt fails with an error whose code is not in the   *)
(* retryable set, runInTransaction raises that same error after exactly    *)
(* one attempt and with zero backoff wait.                                 *)
(***************************************************************************)
FirstFailsForGood ==
    /\ maxRetries >= 1
    /\ script[1].kind = "reject" /\ script[1].code \notin RETRYABLE_ERRORS

C6_NonRetryableFailsAtOnce ==
    FirstFailsForGood =>
        /\ <>(/\ tpc = "raised"
              /\ txOutcome = Raises(Error(script[1].code, "uow", 1)))
        /\ [](attempts <= 1 /\ waits = <<>> /\ tpc # "backoff")

C6_Witness ==
    /\ FirstFailsForGood /\ maxRetries = 3
    /\ tpc = "raised" /\ attempts = 1 /\ txOutcome.err.code = "P2002"

(***************************************************************************)
(* C7: the unit of work is started at most maxRetries times; once the      *)
(* attempt count has reached maxRetries the error of the last attempt is   *)
(* raised, with no further attempt and no backoff wait after the final     *)
(* failure; every call terminates.                                         *)
(***************************************************************************)
C7_BoundedAttempts ==
    /\ [](/\ attempts <= maxRetries
          /\ tpc = "backoff" => attempts < maxRetries
          /\ (Settled /\ attempts >= 1) => Len(waits) = attempts - 1
          /\ (tpc = "raised" /\ attempts >= 1) =>
                /\ txOutcome.kind = "raised"
                /\ txOutcome.err.attempt = attempts
                /\ txOutcome.err = lastError)
    /\ <>Settled

C7_Witness ==
    /\ tpc = "raised" /\ maxRetries = 3 /\ attempts = 3
    /\ txOutcome.err.code \in RETRYABLE_ERRORS

(***************************************************************************)
(* C8: the unit of work is never partially committed: the writes of an     *)
(* attempt are committed all together or not at all, a failed or timed-out *)
(* attempt leaves no committed write, a successful return means exactly    *)
(* one attempt's writes are committed, and a raised error means none are.  *)
(***************************************************************************)
C8_NeverPartiallyCommitted ==
    /\ \A a \in CommittedAttempts : WritesOf(a) = 1..NumWrites
    /\ Cardinality(CommittedAttempts) <= 1
    /\ tpc = "returned" <=> CommittedAttempts # {}
    /\ tpc = "returned" => CommittedAttempts = {txOutcome.attempt}
    /\ tpc = "raised" => committed = {}

C8_Witness ==
    /\ tpc = "returned" /\ attempts = 2 /\ lateOps = 0
    /\ committed = {<<2, i>> : i \in 1..NumWrites}

(***************************************************************************)
(* The tables a raw query names, read off its clauses.                     *)
(***************************************************************************)
\* the items of a comma-separated list of names that starts at token i
RECURSIVE NameList(_, _)
NameList(q, i) ==
    IF i > Len(q) \/ ~IsWord(q[i]) THEN {}
    ELSE {q[i]} \cup (IF i + 1 <= Len(q) /\ q[i + 1] = ","
                      THEN NameList(q, i + 2)
                      ELSE {})

\* every table of the FROM lists, and the table after JOIN, INSERT INTO and
\* UPDATE (DELETE FROM is a FROM list of one)
ReferencedTables(q) ==
    UNION {NameList(q, i + 1) : i \in {j \in 1..Len(q) : q[j] = "from"}}
    \cup {q[i + 1] : i \in {j \in 1..(Len(q) - 1) :
                                q[j] \in {"join", "into", "update"}
                                /\ IsWord(q[j + 1])}}

\* queryRaw has answered or is waiting for the store
RawValidated == rpc \in {"executing", "done"}

(***************************************************************************)
(* C9: every raw query that references a table outside the allowed-tables  *)
(* set in a FROM, JOIN, INSERT INTO, UPDATE or DELETE FROM clause, the     *)
(* second and later tables of a comma-separated FROM list included, is     *)
(* rejected: it is never handed to the store and the caller gets an error, *)
(* whatever the columns and the column allow-lists.                        *)
(***************************************************************************)
C9_DisallowedTableRejected ==
    (/\ RawValidated
     /\ rawQuery.isString
     /\ ReferencedTables(ToLowerCase(rawQuery.toks)) \ queryWhitelist.tables
            # {})
    => (storeLog = <<>> /\ rawOutcome.kind = "raised")

(***************************************************************************)
(* The checks of queryRaw, one by one.                                     *)
(***************************************************************************)
FlagPasses == queryWhitelist.rawQueryEnabled
TextPasses == rawQuery.isString /\ Len(rawQuery.toks) > 0
ValuesPass == rawValues.isArray
LengthPasses ==
    \/ queryWhitelist.maxQueryLength = 0
    \/ QueryLength(rawQuery.toks) <= queryWhitelist.maxQueryLength
ParameterizationPasses ==
    queryWhitelist.parameterizedOnly
    => \A i \in 1..Len(rawQuery.toks) : ~MatchesInlineValue(rawQuery.toks[i])
VerbPasses ==
    /\ queryWhitelist.allowedOperations.defined
    /\ UpperOf(LowerOf(rawQuery.toks[1])) \in queryWhitelist.allowedOperations.ops
TablesPass ==
    LET tables == ExtractAllTables(ToLowerCase(rawQuery.toks))
    IN  \A i \in 1..Len(tables) : tables[i] \in queryWhitelist.tables
JoinsPass ==
    queryWhitelist.joins.b
    => ~IsErr(ValidateJoins(queryWhitelist, ToLowerCase(rawQuery.toks),
                            Unique(ExtractAllTables(ToLowerCase(rawQuery.toks)))))
SortingPasses ==
    queryWhitelist.sorting.b
    => ~IsErr(ValidateSorting(queryWhitelist, ToLowerCase(rawQuery.toks)))
ColumnsPass ==
    LET q == ToLowerCase(rawQuery.toks)
    IN  /\ q[1] = "select"
            => ~IsErr(ValidateSelectQuery(queryWhitelist, q,
                                          Unique(ExtractAllTables(q))))
        /\ q[1] = "insert" => ~IsErr(ValidateInsertQuery(queryWhitelist, q))
        /\ q[1] = "update" => ~IsErr(ValidateUpdateQuery(queryWhitelist, q))
EveryCheckPasses ==
    /\ FlagPasses /\ TextPasses /\ ValuesPass /\ LengthPasses
    /\ ParameterizationPasses /\ VerbPasses /\ TablesPass /\ JoinsPass
    /\ SortingPasses /\ ColumnsPass

(***************************************************************************)
(* C10: the query is handed to the store only after every enabled check    *)
(* of queryRaw has passed (flag, text, values, length, parameterization,   *)
(* verb, tables, joins, sorting, columns of the operation); when a check   *)
(* fails the caller gets that rejection and nothing is sent; and under the *)
(* default whitelist no call of queryRaw reaches the store.                *)
(***************************************************************************)
C10_SentOnlyAfterChecks ==
    /\ storeLog # <<>> => EveryCheckPasses
    /\ (RawValidated /\ ~EveryCheckPasses)
           => /\ storeLog = <<>>
              /\ rawOutcome.kind = "raised"
              /\ rawOutcome.err.kind # "queryFailed"
    /\ rawOutcome.kind = "returned" => storeLog = <<rawQuery>>
    /\ queryWhitelist = DefaultQueryWhitelist
           => storeLog = <<>> /\ (RawValidated => rawOutcome.kind = "raised")

\* a query with a JOIN passed the checks of a whitelist that has joins and
\* sorting switched on, went to the store and its rows came back
C10_Witness ==
    /\ rpc = "done"
    /\ rawOutcome.kind = "returned"
    /\ storeLog = <<rawQuery>>
    /\ queryWhitelist.joins.k = "record"
    /\ queryWhitelist.sorting.b
    /\ queryWhitelist.parameterizedOnly
    /\ JoinMatchesFrom(ToLowerCase(rawQuery.toks), 1) # <<>>

(***************************************************************************)
(* C11: when the policy has hasSoftDelete and the request does not ask for *)
(* deleted rows (withDeleted absent or falsy), the plan _parseQueryParams  *)
(* returns has where.deletedAt = null, whatever JSON filter and simple     *)
(* filters the caller supplied.                                            *)
(***************************************************************************)
C11_SoftDeleteInjected ==
    (/\ qpc = "parsed"
     /\ qresult.status = "plan"
     /\ securityConfig.hasSoftDelete
     /\ WithDeletedFalsy(req))
    => /\ HasKey(qresult.plan.where, "deletedAt")
       /\ Get(qresult.plan.where, "deletedAt") = Null

(***************************************************************************)
(* Include trees and the depth bound.                                      *)
(***************************************************************************)
\* the relation names of an include tree at its levels 1..d
RECURSIVE NamesWithin(_, _)
NamesWithin(include, d) ==
    IF d = 0 \/ ~Truthy(include) THEN {}
    ELSE UNION { {include.kids[i][1]}
                    \cup NamesWithin(Get(include.kids[i][2], "include"), d - 1)
               : i \in 1..Len(include.kids) }

\* _parseQueryParams reached the validation of an include tree that is
\* nested deeper than maxIncludeDepth: the JSON parameters parsed and the
\* where and orderBy objects, which are validated first, raised nothing
DeepIncludeValidated ==
    /\ qpc = "parsed"
    /\ JsonParses(req)
    /\ IncludeDepth(req.include) > securityConfig.maxIncludeDepth
    /\ qresult.err.kind \notin {"filter", "sort"}

(***************************************************************************)
(* C12 as stated: for every include tree nested deeper than                *)
(* maxIncludeDepth, validation raises "Include depth exceeds maximum       *)
(* allowed".                                                               *)
(***************************************************************************)
C12_DeepIncludeRaisesDepth ==
    DeepIncludeValidated => qresult.err.kind = "depth"

(***************************************************************************)
(* C12, amended: every include tree nested deeper than maxIncludeDepth is  *)
(* rejected.  When every relation name at the levels within the bound is   *)
(* allowed, the error is "Include depth exceeds maximum allowed", raised   *)
(* on entering the first level beyond the bound whatever the names at that *)
(* level or deeper; otherwise the error may instead name a relation, and   *)
(* that relation is a disallowed one of a level within the bound.          *)
(***************************************************************************)
C12_DeepIncludeRejected ==
    DeepIncludeValidated
    => LET within == NamesWithin(req.include, securityConfig.maxIncludeDepth)
           allowed == securityConfig.allowedIncludeRelations
       IN  /\ qresult.status = "error"
           /\ qresult.err.kind \in {"depth", "include"}
           /\ within \subseteq allowed => qresult.err.kind = "depth"
           /\ qresult.err.kind = "include"
                 => qresult.err.name \in within \ allowed

\* a tree two levels deep under a bound of one, with an allowed relation at
\* level one and a disallowed one at level two, was rejected for its depth
C12_Witness ==
    /\ DeepIncludeValidated
    /\ qresult.err.kind = "depth"
    /\ NamesWithin(req.include, securityConfig.maxIncludeDepth)
          \subseteq securityConfig.allowedIncludeRelations
    /\ IncludeNames(req.include) \ securityConfig.allowedIncludeRelations # {}

C14_ValidatedBeforeStore ==
    /\ clientCalls # <<>>
          => /\ qresult.status = "plan"
             /\ qresult = ParseQueryParams(securityConfig, req)
             /\ clientCalls = <<ClientCall("findMany", qresult.plan),
                                ClientCall("count", qresult.plan.where)>>
    /\ (gpc # "idle" /\ qresult.status = "error")
          => /\ clientCalls = <<>>
             /\ unsettled = {}
             /\ gpc = "done"
             /\ response = NextError(qresult.err)

\* a request with a disallowed filter name was handled: the error went to
\* next and the client was never called
C14_Witness ==
    /\ gpc = "done"
    /\ qresult.status = "error"
    /\ qresult.err.kind = "filter"
    /\ response.kind = "next"
    /\ clientCalls = <<>>

(***************************************************************************)
(* Nested-write payloads and trees, read structurally.                     *)
(***************************************************************************)
\* a and b are the same JSON value, whatever the order of their keys
RECURSIVE SameTree(_, _)
SameTree(a, b) ==
    /\ a.t = b.t
    /\ KeySet(a) = KeySet(b)
    /\ \A k \in KeySet(a) : SameTree(Get(a, k), Get(b, k))

\* the relation fields of an entity payload that hold an object
RelationFieldsOf(entity) ==
    {k \in KeySet(entity) : IsValidRelation(k) /\ IsPlainObject(Get(entity, k))}

\* the payloads of related entities a relation value holds, with the mode
\* they are written in: those under create and update, or the value itself
\* in the implicit syntax
RelatedPayloads(value, mode) ==
    LET explicit == IF mode THEN {"create", "connect", "disconnect", "update", "delete"}
                    ELSE {"create", "connect"}
        written  == IF mode THEN {"create", "update"} ELSE {"create"}
    IN  IF \E k \in explicit : Truthy(Get(value, k))
        THEN {<<Get(value, k), k = "update">> :
                k \in {j \in written : IsPlainObject(Get(value, j))}}
        ELSE {<<value, mode>>}

\* the number of relation hops of an entity payload
RECURSIVE Hops(_, _)
Hops(entity, mode) ==
    MaxOf({1 + MaxOf({Hops(p[1], p[2]) :
                        p \in RelatedPayloads(Get(entity, k), mode)})
             : k \in RelationFieldsOf(entity)})

\* every relation field of the payload, at every hop, uses only the
\* explicit keys of its mode: create and connect, and update in update mode
RECURSIVE IsExplicit(_, _)
IsExplicit(entity, mode) ==
    \A k \in RelationFieldsOf(entity) :
        LET value == Get(entity, k)
        IN  /\ KeySet(value) # {}
            /\ KeySet(value) \subseteq
                  (IF mode THEN {"create", "update", "connect"}
                   ELSE {"create", "connect"})
            /\ \A j \in KeySet(value) \ {"connect"} :
                  /\ IsPlainObject(Get(value, j))
                  /\ IsExplicit(Get(value, j), j = "update")

\* no member of the value, at any depth, is null
RECURSIVE NoNulls(_)
NoNulls(n) ==
    /\ ~IsNullish(n)
    /\ \A k \in KeySet(n) : NoNulls(Get(n, k))

\* the translator with the depth budget has handled the payload
TranslatedWithBudget == npc = "done" /\ nvariant = "depth"

(***************************************************************************)
(* C15: translating a payload whose relation fields already use the        *)
(* explicit create / update / connect keys is a no-op: when its relation   *)
(* hops do not exceed maximumNestedDepth (the default of 1 included),      *)
(* _processNestedFields returns a tree structurally equal to the input,    *)
(* with the contents of every create and update payload preserved.  Read   *)
(* for payloads without null members.                                      *)
(***************************************************************************)
C15_ExplicitIsNoOp ==
    (/\ TranslatedWithBudget
     /\ IsExplicit(payload, updateMode)
     /\ NoNulls(payload)
     /\ Hops(payload, updateMode) <= MaxDepthOf(securityConfig))
    => SameTree(writeTree, payload)


\* the translation the handler's version of _processNestedFields gives body
TranslationOf(data, mode) ==
    IF nvariant = "depth"
    THEN ProcessNestedFields(data, mode, 0, MaxDepthOf(securityConfig))
    ELSE ProcessNestedFieldsFlat(data, mode)

\* the body with the value of field k replaced by v
WithField(entity, k, v) == Obj(SetKey(Spread(entity), k, v))

\* the relation fields of the body written in the implicit create syntax:
\* an object with neither a create nor a connect key
ImplicitCreateFields(entity) ==
    {k \in RelationFieldsOf(entity) :
        KeySet(Get(entity, k)) \cap {"create", "connect"} = {}}

(***************************************************************************)
(* C16: in create mode, for a declared relation field r and an object      *)
(* payload p with neither a create nor a connect key, translating {r: p}   *)
(* yields the same WriteTree as translating {r: {create: p}}.              *)
(***************************************************************************)
C16_ImplicitCreateIsExplicitCreate ==
    (npc = "done" /\ ~updateMode)
    => \A r \in ImplicitCreateFields(payload) :
          writeTree =
             TranslationOf(WithField(payload, r,
                                     Obj1("create", Get(payload, r))), FALSE)

\* an implicit create of a related entity with fields has been translated
\* and its fields are in the tree under create
C16_Witness ==
    /\ npc = "done" /\ ~updateMode /\ nvariant = "depth"
    /\ ImplicitCreateFields(payload) = {"author"}
    /\ HasKey(Get(payload, "author"), "name")
    /\ HasKey(Get(Get(writeTree, "author"), "create"), "name")


\* the payloads of related entities a relation value holds, each with the
\* key of the sub-operation the translator writes it under
WrittenUnder(value, mode) ==
    LET explicit == IF mode THEN {"create", "connect", "disconnect", "update", "delete"}
                    ELSE {"create", "connect"}
        written  == IF mode THEN {"create", "update"} ELSE {"create"}
    IN  IF \E k \in explicit : Truthy(Get(value, k))
        THEN {<<k, Get(value, k)>> :
                k \in {j \in written : IsPlainObject(Get(value, j))}}
        ELSE {<<IF mode THEN "update" ELSE "create", value>>}

\* the non-relation fields of an entity payload that hold a value
OwnFieldsOf(entity) ==
    {k \in KeySet(entity) : ~IsValidRelation(k) /\ ~IsNullish(Get(entity, k))}

(***************************************************************************)
(* C17: the depth budget is consumed by relation hops only: for a payload  *)
(* with at most maximumNestedDepth relation hops, every non-relation       *)
(* sub-field of a related entity's payload (a scalar, or a plain nested    *)
(* object) appears unchanged in the output WriteTree.  Stated for the      *)
(* related entities one hop from the root.                                 *)
(***************************************************************************)
C17_OwnFieldsKept ==
    (/\ TranslatedWithBudget
     /\ Hops(payload, updateMode) <= MaxDepthOf(securityConfig))
    => \A r \in RelationFieldsOf(payload) :
         \A w \in WrittenUnder(Get(payload, r), updateMode) :
           \A k \in OwnFieldsOf(w[2]) :
              LET written == Get(Get(Get(writeTree, r), w[1]), k)
              IN  SameTree(written, Get(w[2], k))


\* the nesting depth of the relation sub-operation nodes of a WriteTree: a
\* relation field holding an object is one level, and the entities under its
\* create and update keys carry the next ones
RECURSIVE OutHops(_)
OutHops(tree) ==
    MaxOf({1 + MaxOf({OutHops(Get(Get(tree, r), op)) :
                        op \in {j \in {"create", "update"} :
                                  IsPlainObject(Get(Get(tree, r), j))}})
             : r \in RelationFieldsOf(tree)})

ImplicitUpdateFields(entity) ==
    {k \in RelationFieldsOf(entity) :
        KeySet(Get(entity, k))
           \cap {"create", "connect", "disconnect", "delete", "update"} = {}}

\* the translation of the payload of a related entity one hop from the root
RelatedTranslationOf(value, mode) ==
    IF nvariant = "depth"
    THEN ProcessNestedFields(value, mode, 1, MaxDepthOf(securityConfig))
    ELSE value

\* the implicit update syntax, with the translator without the depth budget
FlatImplicitUpdate ==
    (npc = "done" /\ updateMode /\ nvariant = "flat")
    => \A r \in ImplicitUpdateFields(payload) :
          LET value == Get(payload, r)
          IN  IF KeySet(value) # {}
              THEN Get(writeTree, r) = Obj1("update", value)
              ELSE ~HasKey(Get(writeTree, r), "update")

(***************************************************************************)
(* C19: in update mode, for a relation field whose object value carries    *)
(* none of the keys create, connect, disconnect, delete, update: when the  *)
(* object is non-empty the emitted node is exactly {update: translation of *)
(* the object}, and when the object is empty no update sub-operation is    *)
(* emitted.                                                                *)
(***************************************************************************)
C19_ImplicitUpdate ==
    (npc = "done" /\ updateMode)
    => \A r \in ImplicitUpdateFields(payload) :
          LET value == Get(payload, r)
          IN  IF KeySet(value) # {}
              THEN Get(writeTree, r) =
                      Obj1("update", RelatedTranslationOf(value, TRUE))
              ELSE ~HasKey(Get(writeTree, r), "update")


\* the items of the batch that have been created: write i of the unit of
\* work is the create of item i
CreatedItems == {w[2] : w \in committed}

(***************************************************************************)
(* C20: in the transactional bulk create, whatever ends the request (the   *)
(* body check, a schema-validation failure of an item, a store failure of  *)
(* an item, a timeout, retries exhausted, or success), either every        *)
(* submitted item has been created or none has: no strict non-empty subset *)
(* of the batch is committed in any state, a 201 response means all items  *)
(* were created and any other ending means none was.                       *)
(***************************************************************************)
C20_BulkCreateAllOrNothing ==
    /\ CreatedItems \in {{}, 1..Len(body.items)}
    /\ bpc = "done" =>
          IF bulkResponse.status = 201
          THEN /\ CreatedItems = 1..Len(body.items)
               /\ bulkResponse.count = Len(body.items)
          ELSE CreatedItems = {}
    /\ bpc \in {"received", "validating"} => committed = {}

\* the runner gave up after three attempts that failed in the store, the
\* handler passed the error on, and no item is created
C20_Witness ==
    /\ bpc = "done"
    /\ bulkResponse.kind = "next"
    /\ bulkResponse.err.src = "uow"
    /\ bulkResponse.err.code \in RETRYABLE_ERRORS
    /\ attempts = BulkMaxRetries
    /\ Len(body.items) = BatchSize
    /\ CreatedItems = {}

\* the creates that were rejected, in the order of the batch
RejectedCreates == FilterIndices(creationResults, "rejected", 1)

(***************************************************************************)
(* C21: in the partial-success bulk create the per-item results are        *)
(* aggregated faithfully: createdCount + failedCount equals the number of  *)
(* submitted items, each failure entry carries as originalData the input   *)
(* item whose own create call failed, and the response status is 207       *)
(* exactly when at least one create failed and 201 otherwise.              *)
(***************************************************************************)
C21_FaithfulAggregation ==
    (ppc = "done" /\ partialResponse.status \in {201, 207})
    => /\ partialResponse.createdCount + partialResponse.failedCount
             = Len(submitted.items)
       /\ Len(partialResponse.failures) = Len(RejectedCreates)
       /\ \A k \in 1..Len(partialResponse.failures) :
             partialResponse.failures[k].originalIndex = RejectedCreates[k]
       /\ partialResponse.status = 207 <=> Len(RejectedCreates) > 0
       /\ partialResponse.status = 201 <=> Len(RejectedCreates) = 0

\* the counts and the status alone
PartialCountsAndStatus ==
    (ppc = "done" /\ partialResponse.status \in {201, 207})
    => /\ partialResponse.createdCount + partialResponse.failedCount
             = Len(submitted.items)
       /\ partialResponse.status = 207 <=> Len(RejectedCreates) > 0
       /\ partialResponse.status = 201 <=> Len(RejectedCreates) = 0

(***************************************************************************)
(* The columns an UPDATE assigns, read off its SET clause.                 *)
(***************************************************************************)
\* the names followed by "=" that stand after SET or after a comma
AssignedColumns(q) ==
    {q[i] : i \in {j \in 2..Len(q) - 1 :
                     /\ q[j + 1] = "="
                     /\ q[j - 1] \in {"set", ","}}}

\* the query is an UPDATE of a table with an explicit column list that
\* assigns a column outside the list
AssignsDisallowedColumn ==
    /\ rawQuery.isString
    /\ Len(rawQuery.toks) > 1
    /\ LET q == ToLowerCase(rawQuery.toks)
           allowedColumns == ColumnsOf(queryWhitelist, q[2])
       IN  /\ q[1] = "update"
           /\ allowedColumns.k = "list"
           /\ AssignedColumns(q) \ allowedColumns.cols # {}

(***************************************************************************)
(* C22: for an UPDATE on a table with an explicit allowed-column list the  *)
(* raw query is rejected if any column assigned in the SET clause, the     *)
(* first assignment or a later comma-separated one, is not in that list:   *)
(* the query is never handed to the store and the caller gets an error.    *)
(***************************************************************************)
C22_DisallowedSetColumnRejected ==
    (RawValidated /\ AssignsDisallowedColumn)
    => (storeLog = <<>> /\ rawOutcome.kind = "raised")

\* the same for the first assignment of the SET clause alone
FirstSetColumnRejected ==
    (/\ RawValidated /\ AssignsDisallowedColumn
     /\ LET q == ToLowerCase(rawQuery.toks)
        IN  q[4] \notin ColumnsOf(queryWhitelist, q[2]).cols)
    => (storeLog = <<>> /\ rawOutcome.kind = "raised")

\* the query holds an inline value: a quoted string, a bare number or null
HoldsLiteral ==
    /\ rawQuery.isString
    /\ \E i \in 1..Len(rawQuery.toks) : LowerOf(rawQuery.toks[i]) \in Literals

(***************************************************************************)
(* C23: with parameterizedOnly set, every raw query that contains a quoted *)
(* string, a bare numeric literal or a null literal outside ? placeholders *)
(* is rejected before the store is reached, even when all its tables and   *)
(* columns are allowed.                                                    *)
(***************************************************************************)
C23_InlineValueRejected ==
    (RawValidated /\ queryWhitelist.parameterizedOnly /\ HoldsLiteral)
    => (storeLog = <<>> /\ rawOutcome.kind = "raised")

\* the same for the inline values the four patterns have a match in
MatchedValueRejected ==
    (/\ RawValidated /\ queryWhitelist.parameterizedOnly /\ rawQuery.isString
     /\ \E i \in 1..Len(rawQuery.toks) : MatchesInlineValue(rawQuery.toks[i]))
    => (storeLog = <<>> /\ rawOutcome.kind = "raised")

(***************************************************************************)
(* C24: whatever error the store raises while executing an accepted raw    *)
(* query, the error surfaced to the caller is the fixed opaque 'Database   *)
(* query failed' error: what the caller receives does not depend on the    *)
(* message or the code of the store's failure, so two failures that differ *)
(* only in these are indistinguishable to the caller.                      *)
(***************************************************************************)
C24_StoreFailureOpaque ==
    storeFailure # NoStoreFailure
    => /\ rpc = "done"
       /\ rawOutcome = RawRaises(Err("queryFailed", ""))
       /\ \A f \in StoreFailures : SurfacedError(f) = rawOutcome.err

\* an accepted query failed in the store with a coded error
C24_Witness ==
    /\ rpc = "done"
    /\ storeLog = <<rawQuery>>
    /\ storeFailure = StoreFailure("P2010", "syntax error")
    /\ rawOutcome.kind = "raised"

\* the kinds of the rejections of the query-parameter translator
TranslatorRejections ==
    {"json_filter", "json_include", "filter", "sort", "select", "include",
     "depth", "limit"}

(***************************************************************************)
(* C25: every rejection raised by the query-parameter translator (invalid  *)
(* JSON, disallowed field, include depth exceeded, limit exceeded) reaches *)
(* the caller as a 4xx-class client-input error, never as a 5xx system     *)
(* failure, and is never retried: no store call is made for the request.   *)
(***************************************************************************)
C25_TranslatorRejectionIsClientError ==
    (/\ response.kind = "next"
     /\ response.err.kind \in TranslatorRejections)
    => /\ clientCalls = <<>>
       /\ errorResponse # NoErrorResponse
             => errorResponse.status \in 400..499

\* a rejection of the translator is passed to next once and no store call
\* is made for the request
TranslatorRejectionNotRetried ==
    (/\ response.kind = "next"
     /\ response.err.kind \in TranslatorRejections)
    => (clientCalls = <<>> /\ qresult.status = "error"
        /\ qresult.err = response.err)

(***************************************************************************)
(* C26: for every page and limit input (absent, zero, negative,            *)
(* non-numeric or numeric) the effective page p is an integer with p >= 1, *)
(* and the plan's skip equals (p - 1) x take and is a non-negative         *)
(* integer.                                                                *)
(***************************************************************************)
C26_PageAndSkipWellFormed ==
    (qpc = "parsed" /\ qresult.status = "plan")
    => LET p == ParsedPage(req)
           plan == qresult.plan
       IN  /\ ~p.nan /\ p.v >= 1
           /\ ~plan.take.nan
           /\ plan.skip = Num((p.v - 1) * plan.take.v)
           /\ plan.skip.v >= 0

\* the same for a page that is absent or an integer and a limit that is
\* absent or a non-negative integer
PageAndSkipOfIntegers ==
    (/\ qpc = "parsed" /\ qresult.status = "plan"
     /\ req.page.k # "junk"
     /\ req.limit.k = "absent" \/ (req.limit.k = "int" /\ req.limit.v >= 0))
    => LET p == ParsedPage(req)
           plan == qresult.plan
       IN  /\ ~p.nan /\ p.v >= 1
           /\ ~plan.take.nan
           /\ plan.skip = Num((p.v - 1) * plan.take.v)
           /\ plan.skip.v >= 0

\* the fields of the data sent to the store that are no relation fields
ScalarsSent ==
    {k \in KeySet(storeData) : ~IsValidRelation(k)}

(***************************************************************************)
(* C27: on create and update every scalar field value sent to the store    *)
(* comes from the schema-validated payload: no field of the raw request    *)
(* body that schema validation removed, defaulted or transformed reaches   *)
(* the store with its unvalidated value.                                   *)
(***************************************************************************)
C27_ScalarsFromValidatedPayload ==
    wpc \in {"awaiting", "done"} /\ storeData # Undef
    => \A k \in ScalarsSent :
          /\ HasKey(SchemaParse(wbody, wmode), k)
          /\ Get(storeData, k) = Get(SchemaParse(wbody, wmode), k)

\* the same for the earlier handler, whose translator keeps relation
\* fields only
FlatScalarsFromValidatedPayload ==
    (wpc \in {"awaiting", "done"} /\ storeData # Undef /\ nvariant = "flat")
    => \A k \in ScalarsSent :
          /\ HasKey(SchemaParse(wbody, wmode), k)
          /\ Get(storeData, k) = Get(SchemaParse(wbody, wmode), k)

(***************************************************************************)
(* C28: when runInTransaction returns or raises, no invocation of the unit *)
(* of work is still executing: a unit of work that lost the timeout race   *)
(* is cancelled and issues no further store operation after the caller has *)
(* received the timeout error, and at most one invocation of the unit of   *)
(* work is in flight at any time.                                          *)
(***************************************************************************)
C28_NoUnitOfWorkOutlivesTheCall ==
    /\ Settled => inflight = {}
    /\ lateOps = 0
    /\ Cardinality(inflight) <= 1

\* at most one invocation of the unit of work is in flight at any time
AtMostOneInFlight == Cardinality(inflight) <= 1


\* the soft deletes that were answered with 200
SoftDeleted ==
    {h \in Handlers : /\ handlerPc[h] = "done"
                      /\ handlerOp[h] = "softDelete"
                      /\ softResponse[h].status = 200}

\* C29: softDelete succeeds only on an existing row whose deletedAt is null,
\* also when requests interleave: the step of a handler that writes deletedAt
\* and answers 200 starts from a stored row that is there and not deleted,
\* so of two softDelete requests for the same active row only one succeeds.
C29_SoftDeleteOnlyOnActiveRow ==
    [][\A h \in Handlers :
          (/\ handlerOp[h] = "softDelete"
           /\ handlerPc[h] = "read"
           /\ handlerPc'[h] = "done"
           /\ softResponse'[h].status = 200)
          => (storedItem.found /\ ~storedItem.deletedAt.set)]_vars

\* what the handler does establish: the row it read was there and not
\* deleted when findUnique resolved
SoftDeleteReadActiveRow ==
    \A h \in SoftDeleted :
        existingItem[h].found /\ ~existingItem[h].deletedAt.set

\* two soft deletes of one row both answered 200, the later one having
\* overwritten the deletedAt of the earlier
BothSoftDeletesSucceed ==
    /\ Cardinality(SoftDeleted) = 2
    /\ storedItem.deletedAt.set


\* the words that begin a writing statement
WritingKeywords == {"insert", "update", "delete"}
ContainsWritingStatement(toks) ==
    \E i \in 1..Len(toks) : ToLowerCase(toks)[i] \in WritingKeywords

\* C30: with allowedOperations = [SELECT], no query text that contains an
\* INSERT, UPDATE or DELETE statement anywhere, for example after a semicolon
\* following a leading SELECT, is passed to the store.
C30_ReadOnlyStoreSeesNoWrite ==
    (/\ queryWhitelist.allowedOperations.defined
     /\ queryWhitelist.allowedOperations.ops = {"SELECT"})
    => \A i \in 1..Len(storeLog) :
           ~ContainsWritingStatement(storeLog[i].toks)

\* what the operation check does establish: the text passed to the store
\* begins with SELECT
ReadOnlyStoreSeesLeadingSelect ==
    (/\ queryWhitelist.allowedOperations.defined
     /\ queryWhitelist.allowedOperations.ops = {"SELECT"})
    => \A i \in 1..Len(storeLog) :
           ToLowerCase(storeLog[i].toks)[1] = "select"

====
